---- MODULE Spec2Model ----
(***************************************************************************)
(* Card-generation domain model of anki_generator: the GenerationSession   *)
(* state machine, the Card entity's mutators, the Translation value object *)
(* and Deck.add_card.                                                      *)
(***************************************************************************)
EXTENDS Integers, Sequences, FiniteSets, TLC

\* ------------------------------------------------------------------ bounds
\* largest max_cards a session of the model is built with
MaxCards == 2
\* latest reading of the clock (datetime.utcnow) in the model
MaxTime == 1
\* longest raw string handed to the Translation constructor
MaxLen == 2
\* Deck.add_card is explored while the deck holds fewer cards than this
MaxDeckCards == 1

\* ------------------------------------------------------- program constants
\* _validate_session: 1 <= max_cards <= 20
MinMaxCards == 1
MaxMaxCards == 20

None == "None"
CardIds == {"c1", "c2"}
DeckIds == {"d1", "d2"}
Messages == {"boom"}
Times == 0..MaxTime

\* GenerationStatus values
PENDING == "pending"
IN_PROGRESS == "in_progress"
COMPLETED == "completed"
FAILED == "failed"
CANCELLED == "cancelled"
GenerationStatus == {PENDING, IN_PROGRESS, COMPLETED, FAILED, CANCELLED}

\* ----------------------------------------------------------------- strings
\* A string is a sequence of one-character strings.
Alphabet == {"a", "A", " "}

RECURSIVE SeqsUpTo(_)
SeqsUpTo(n) ==
    IF n = 0 THEN {<<>>}
    ELSE LET shorter == SeqsUpTo(n - 1)
         IN  shorter \cup {Append(s, ch) : s \in {x \in shorter : Len(x) = n - 1}, ch \in Alphabet}

RawStrings == SeqsUpTo(MaxLen)

IsSpace(ch) == ch = " "

UpperLetters == <<"A", "B", "C", "D", "E", "F", "G", "H", "I", "J", "K", "L", "M",
                  "N", "O", "P", "Q", "R", "S", "T", "U", "V", "W", "X", "Y", "Z">>
LowerLetters == <<"a", "b", "c", "d", "e", "f", "g", "h", "i", "j", "k", "l", "m",
                  "n", "o", "p", "q", "r", "s", "t", "u", "v", "w", "x", "y", "z">>
IsUpper(ch) == \E i \in 1..26 : UpperLetters[i] = ch
IsLower(ch) == \E i \in 1..26 : LowerLetters[i] = ch
\* str.isalpha() on one character
IsLetter(ch) == IsUpper(ch) \/ IsLower(ch)
\* str.lower() on one character, for the whole alphabet
ToLowerChar(ch) ==
    IF IsUpper(ch) THEN LowerLetters[CHOOSE i \in 1..26 : UpperLetters[i] = ch] ELSE ch
\* str.lower()
ToLower(s) == [i \in 1..Len(s) |-> ToLowerChar(s[i])]

\* str.lower() on one character
LowerChar(ch) == ToLowerChar(ch)

\* str.lower()
Lower(s) == [i \in 1..Len(s) |-> LowerChar(s[i])]

RECURSIVE LStrip(_)
LStrip(s) == IF s # <<>> /\ IsSpace(Head(s)) THEN LStrip(Tail(s)) ELSE s

RECURSIVE RStrip(_)
RStrip(s) ==
    IF s # <<>> /\ IsSpace(s[Len(s)]) THEN RStrip(SubSeq(s, 1, Len(s) - 1)) ELSE s

\* str.strip()
Strip(s) == RStrip(LStrip(s))

\* re.sub(r'\s+', ' ', s): a whitespace character that follows another one is
\* dropped, and the one that stays becomes a space
CollapseSpaces(s) ==
    LET marked == [i \in 1..Len(s) |-> [ch |-> s[i], follows |-> i > 1 /\ IsSpace(s[i - 1])]]
        kept == SelectSeq(marked, LAMBDA p : ~(IsSpace(p.ch) /\ p.follows))
    IN  [i \in 1..Len(kept) |-> IF IsSpace(kept[i].ch) THEN " " ELSE kept[i].ch]

\* ------------------------------------------------------------- Translation
\* Translation.__post_init__ raises when the value is empty or blank
TranslationRejects(raw) == raw = <<>> \/ Strip(raw) = <<>>

\* Translation.__post_init__: the value the object holds after construction
TranslationValue(raw) == CollapseSpaces(Strip(raw))

\* Translation.normalized
TranslationNormalized(value) == Strip(Lower(value))

Translations == {TranslationValue(raw) : raw \in {r \in RawStrings : ~TranslationRejects(r)}}

\* ------------------------------------------------------------------- state
VARIABLES
    session,   \* the GenerationSession under test
    cards,     \* the Card objects handed to the session and the decks, by id
    decks,     \* the Deck objects, by id
    card,      \* a Card object whose mutators are called directly
    now,       \* the clock read by datetime.utcnow()
    last       \* the latest call: operation, argument, and how it ended

vars == <<session, cards, decks, card, now, last>>

\* datetime.utcnow(): a reading not earlier than the previous one
Later(t) == {u \in Times : u >= t /\ u <= t + 1}

\* an Optional[datetime]: None, or a reading of the clock
NotSet == <<>>
At(t) == <<t>>

NoCall == [op |-> "none", arg |-> None, ok |-> TRUE, err |-> None]
Returned(op, arg) == [op |-> op, arg |-> arg, ok |-> TRUE, err |-> None]
Raised(op, arg, err) == [op |-> op, arg |-> arg, ok |-> FALSE, err |-> err]

\* -------------------------------------------------------------------- Card
\* Card.assign_to_deck, as a function of the card, the deck id and the clock
AssignMutKeep(c, deck_id, t) == [c EXCEPT !.updated_at = t]
assign_to_deck(c, deck_id, t) == [c EXCEPT !.deck_id = deck_id, !.updated_at = t]

NewCard(value) == [translation |-> value, deck_id |-> None, updated_at |-> 0]

\* ------------------------------------------------------- GenerationSession
cards_generated_count == Len(session.generated_cards)
is_pending == session.status = PENDING
is_in_progress == session.status = IN_PROGRESS
is_finished == session.status \in {COMPLETED, FAILED, CANCELLED}

CanAddMutNoCapacity == session.status \in {PENDING, IN_PROGRESS}
can_add_cards ==
    /\ session.status \in {PENDING, IN_PROGRESS}
    /\ cards_generated_count < session.max_cards

\* GenerationSession._validate_session on the max_cards argument
ValidMaxCards(n) == MinMaxCards <= n /\ n <= MaxMaxCards

Init ==
    /\ \E n \in {m \in 1..MaxCards : ValidMaxCards(m)}, d \in DeckIds :
          session = [status |-> PENDING, generated_cards |-> <<>>, max_cards |-> n,
                     deck_id |-> d, updated_at |-> 0, completed_at |-> NotSet,
                     error_message |-> None]
    /\ cards = [c \in CardIds |-> NewCard(<<"a">>)]
    /\ decks = [d \in DeckIds |-> [cards |-> <<>>, updated_at |-> 0]]
    /\ card = NewCard(<<"a">>)
    /\ now = 0
    /\ last = NoCall

\* time passes between two calls
Tick ==
    /\ now < MaxTime
    /\ now' = now + 1
    /\ UNCHANGED <<session, cards, decks, card, last>>

StartMutAnyOpen ==
    /\ IF is_finished
       THEN /\ last' = Raised("start_generation", None, "Cannot start generation")
            /\ UNCHANGED <<session, now>>
       ELSE /\ session' = [session EXCEPT !.status = IN_PROGRESS, !.updated_at = now]
            /\ last' = Returned("start_generation", None)
            /\ UNCHANGED now
    /\ UNCHANGED <<cards, decks, card>>
start_generation ==
    /\ IF ~is_pending
       THEN /\ last' = Raised("start_generation", None, "Cannot start generation")
            /\ UNCHANGED <<session, now>>
       ELSE /\ session' = [session EXCEPT !.status = IN_PROGRESS, !.updated_at = now]
            /\ last' = Returned("start_generation", None)
            /\ UNCHANGED now
    /\ UNCHANGED <<cards, decks, card>>

AddMutAssignsFirst(c) ==
    /\ IF c = None
       THEN /\ last' = Raised("add_generated_card", c, "Card cannot be None")
            /\ UNCHANGED <<session, cards, now>>
       ELSE IF ~can_add_cards
       THEN /\ last' = Raised("add_generated_card", c, "Cannot add card")
            /\ cards' = [cards EXCEPT ![c] = assign_to_deck(cards[c], session.deck_id, now)]
            /\ UNCHANGED <<session, now>>
       ELSE \E t \in Later(now) :
            /\ cards' = [cards EXCEPT ![c] = assign_to_deck(cards[c], session.deck_id, now)]
            /\ session' = [session EXCEPT !.generated_cards = Append(@, c),
                                          !.updated_at = t]
            /\ now' = t
            /\ last' = Returned("add_generated_card", c)
    /\ UNCHANGED <<decks, card>>
AddMutStarts(c) ==
    /\ IF ~can_add_cards
       THEN /\ last' = Raised("add_generated_card", c, "Cannot add card")
            /\ UNCHANGED <<session, cards, now>>
       ELSE IF c = None
       THEN /\ last' = Raised("add_generated_card", c, "Card cannot be None")
            /\ UNCHANGED <<session, cards, now>>
       ELSE \E t \in Later(now) :
            /\ cards' = [cards EXCEPT ![c] = assign_to_deck(cards[c], session.deck_id, now)]
            /\ session' = [session EXCEPT !.generated_cards = Append(@, c),
                                          !.status = IN_PROGRESS,
                                          !.updated_at = t]
            /\ now' = t
            /\ last' = Returned("add_generated_card", c)
    /\ UNCHANGED <<decks, card>>
AddMutNoAssign(c) ==
    /\ IF ~can_add_cards
       THEN /\ last' = Raised("add_generated_card", c, "Cannot add card")
            /\ UNCHANGED <<session, cards, now>>
       ELSE IF c = None
       THEN /\ last' = Raised("add_generated_card", c, "Card cannot be None")
            /\ UNCHANGED <<session, cards, now>>
       ELSE \E t \in Later(now) :
            /\ cards' = cards
            /\ session' = [session EXCEPT !.generated_cards = Append(@, c),
                                          !.updated_at = t]
            /\ now' = t
            /\ last' = Returned("add_generated_card", c)
    /\ UNCHANGED <<decks, card>>
add_generated_card(c) ==
    /\ IF ~can_add_cards
       THEN /\ last' = Raised("add_generated_card", c, "Cannot add card")
            /\ UNCHANGED <<session, cards, now>>
       ELSE IF c = None
       THEN /\ last' = Raised("add_generated_card", c, "Card cannot be None")
            /\ UNCHANGED <<session, cards, now>>
       ELSE \E t \in Later(now) :
            /\ cards' = [cards EXCEPT ![c] = assign_to_deck(cards[c], session.deck_id, now)]
            /\ session' = [session EXCEPT !.generated_cards = Append(@, c),
                                          !.updated_at = t]
            /\ now' = t
            /\ last' = Returned("add_generated_card", c)
    /\ UNCHANGED <<decks, card>>

CompleteMutFromPending ==
    /\ IF is_finished
       THEN /\ last' = Raised("complete_generation", None, "Cannot complete generation")
            /\ UNCHANGED <<session, now>>
       ELSE IF cards_generated_count = 0
       THEN /\ last' = Raised("complete_generation", None,
                              "Cannot complete generation without any cards")
            /\ UNCHANGED <<session, now>>
       ELSE \E t \in Later(now) :
            /\ session' = [session EXCEPT !.status = COMPLETED, !.completed_at = At(now),
                                          !.updated_at = t]
            /\ now' = t
            /\ last' = Returned("complete_generation", None)
    /\ UNCHANGED <<cards, decks, card>>
CompleteMutNoCardCheck ==
    /\ IF ~is_in_progress
       THEN /\ last' = Raised("complete_generation", None, "Cannot complete generation")
            /\ UNCHANGED <<session, now>>
       ELSE \E t \in Later(now) :
            /\ session' = [session EXCEPT !.status = COMPLETED, !.completed_at = At(now),
                                          !.updated_at = t]
            /\ now' = t
            /\ last' = Returned("complete_generation", None)
    /\ UNCHANGED <<cards, decks, card>>
CompleteMutCountFirst ==
    /\ IF cards_generated_count = 0
       THEN /\ last' = Raised("complete_generation", None,
                              "Cannot complete generation without any cards")
            /\ UNCHANGED <<session, now>>
       ELSE IF ~is_in_progress
       THEN /\ last' = Raised("complete_generation", None, "Cannot complete generation")
            /\ UNCHANGED <<session, now>>
       ELSE \E t \in Later(now) :
            /\ session' = [session EXCEPT !.status = COMPLETED, !.completed_at = At(now),
                                          !.updated_at = t]
            /\ now' = t
            /\ last' = Returned("complete_generation", None)
    /\ UNCHANGED <<cards, decks, card>>
complete_generation ==
    /\ IF ~is_in_progress
       THEN /\ last' = Raised("complete_generation", None, "Cannot complete generation")
            /\ UNCHANGED <<session, now>>
       ELSE IF cards_generated_count = 0
       THEN /\ last' = Raised("complete_generation", None,
                              "Cannot complete generation without any cards")
            /\ UNCHANGED <<session, now>>
       ELSE \E t \in Later(now) :
            /\ session' = [session EXCEPT !.status = COMPLETED, !.completed_at = At(now),
                                          !.updated_at = t]
            /\ now' = t
            /\ last' = Returned("complete_generation", None)
    /\ UNCHANGED <<cards, decks, card>>

FailMutDropsCards(msg) ==
    /\ IF is_finished
       THEN /\ last' = Raised("fail_generation", msg, "Cannot fail generation")
            /\ UNCHANGED <<session, now>>
       ELSE \E t \in Later(now) :
            /\ session' = [session EXCEPT !.status = FAILED, !.error_message = msg,
                                          !.generated_cards = <<>>,
                                          !.completed_at = At(now), !.updated_at = t]
            /\ now' = t
            /\ last' = Returned("fail_generation", msg)
    /\ UNCHANGED <<cards, decks, card>>
fail_generation(msg) ==
    /\ IF is_finished
       THEN /\ last' = Raised("fail_generation", msg, "Cannot fail generation")
            /\ UNCHANGED <<session, now>>
       ELSE \E t \in Later(now) :
            /\ session' = [session EXCEPT !.status = FAILED, !.error_message = msg,
                                          !.completed_at = At(now), !.updated_at = t]
            /\ now' = t
            /\ last' = Returned("fail_generation", msg)
    /\ UNCHANGED <<cards, decks, card>>

CancelMutNoStamp ==
    /\ IF is_finished
       THEN /\ last' = Raised("cancel_generation", None, "Cannot cancel generation")
            /\ UNCHANGED <<session, now>>
       ELSE \E t \in Later(now) :
            /\ session' = [session EXCEPT !.status = CANCELLED, !.updated_at = t]
            /\ now' = t
            /\ last' = Returned("cancel_generation", None)
    /\ UNCHANGED <<cards, decks, card>>
CancelMutNoGuard ==
    /\ \E t \in Later(now) :
            /\ session' = [session EXCEPT !.status = CANCELLED, !.completed_at = At(now),
                                          !.updated_at = t]
            /\ now' = t
            /\ last' = Returned("cancel_generation", None)
    /\ UNCHANGED <<cards, decks, card>>
cancel_generation ==
    /\ IF is_finished
       THEN /\ last' = Raised("cancel_generation", None, "Cannot cancel generation")
            /\ UNCHANGED <<session, now>>
       ELSE \E t \in Later(now) :
            /\ session' = [session EXCEPT !.status = CANCELLED, !.completed_at = At(now),
                                          !.updated_at = t]
            /\ now' = t
            /\ last' = Returned("cancel_generation", None)
    /\ UNCHANGED <<cards, decks, card>>

\* -------------------------------------------------------------------- Deck
\* Deck.add_card on deck d
Deck_add_card(d, c) ==
    /\ Len(decks[d].cards) < MaxDeckCards
    /\ IF c = None
       THEN /\ last' = Raised("Deck.add_card", c, "Card cannot be None")
            /\ UNCHANGED <<cards, decks, now>>
       ELSE \E t \in Later(now) :
            /\ cards' = [cards EXCEPT ![c] = assign_to_deck(cards[c], d, now)]
            /\ decks' = [decks EXCEPT ![d] = [cards |-> Append(@.cards, c), updated_at |-> t]]
            /\ now' = t
            /\ last' = Returned("Deck.add_card", c)
    /\ UNCHANGED <<session, card>>

\* ------------------------------------------------- Card, called directly
\* Translation(raw) is built, then Card.update_translation is called with it
Card_update_translation(raw) ==
    /\ IF TranslationRejects(raw)
       THEN /\ last' = Raised("Translation", raw, "Translation cannot be empty")
            /\ UNCHANGED card
       ELSE IF Strip(TranslationValue(raw)) = Strip(card.translation)
       THEN /\ last' = Raised("update_translation", raw,
                              "New translation must be different from current")
            /\ UNCHANGED card
       ELSE /\ card' = [card EXCEPT !.translation = TranslationValue(raw),
                                    !.updated_at = now]
            /\ last' = Returned("update_translation", raw)
    /\ UNCHANGED <<session, cards, decks, now>>

\* Card.assign_to_deck called on the card
Card_assign_to_deck(d) ==
    /\ card' = assign_to_deck(card, d, now)
    /\ last' = Returned("assign_to_deck", d)
    /\ UNCHANGED <<session, cards, decks, now>>

\* ---------------------------------------------------------- specifications
\* the session's lifecycle
Next ==
    \/ Tick
    \/ start_generation
    \/ \E c \in CardIds \cup {None} : add_generated_card(c)
    \/ complete_generation
    \/ \E msg \in Messages : fail_generation(msg)
    \/ cancel_generation

Spec == Init /\ [][Next]_vars

\* cards handed to the session and to the decks
DeckNext ==
    \/ Tick
    \/ \E c \in CardIds \cup {None} : add_generated_card(c)
    \/ \E d \in DeckIds, c \in CardIds \cup {None} : Deck_add_card(d, c)

DeckSpec == Init /\ [][DeckNext]_vars

\* one card and its mutators
CardNext ==
    \/ Tick
    \/ \E raw \in RawStrings : Card_update_translation(raw)
    \/ \E d \in DeckIds \cup {None} : Card_assign_to_deck(d)

CardSpec == Init /\ [][CardNext]_vars

\* ------------------------------------------------------ more value objects
\* Word.__post_init__ raises: empty or blank, or a character outside [a-zA-Z\s\-]
WordRejects(raw) ==
    \/ raw = <<>>
    \/ Strip(raw) = <<>>
    \/ \E i \in 1..Len(Strip(raw)) :
          LET ch == Strip(raw)[i] IN ~(IsLetter(ch) \/ IsSpace(ch) \/ ch = "-")
\* Word.__post_init__: the value held after construction
WordValue(raw) == CollapseSpaces(Strip(raw))
\* Word.normalized
WordNormalized(value) == Strip(ToLower(value))

\* Example.__post_init__: minimum length of both sentences
MinExampleLen == 10
\* Example.__post_init__ raises
ExampleRejects(original, translated) ==
    \/ original = <<>> \/ Strip(original) = <<>>
    \/ translated = <<>> \/ Strip(translated) = <<>>
    \/ Len(CollapseSpaces(Strip(original))) < MinExampleLen
    \/ Len(CollapseSpaces(Strip(translated))) < MinExampleLen
\* Example.__post_init__: the pair held after construction
ExampleValue(original, translated) ==
    [original |-> CollapseSpaces(Strip(original)),
     translated |-> CollapseSpaces(Strip(translated))]
\* Example.original_normalized
ExampleOriginalNormalized(ex) == Strip(ToLower(ex.original))

\* str(Path(p)): repeated separators collapse and a trailing one is dropped
RECURSIVE CollapseSlashes(_)
CollapseSlashes(s) ==
    IF s = <<>> THEN <<>>
    ELSE IF Head(s) = "/" /\ Len(s) > 1 /\ s[2] = "/" THEN CollapseSlashes(Tail(s))
    ELSE <<Head(s)>> \o CollapseSlashes(Tail(s))
PathStr(p) ==
    LET c == CollapseSlashes(p)
    IN  IF Len(c) > 1 /\ c[Len(c)] = "/" THEN SubSeq(c, 1, Len(c) - 1) ELSE c
\* Path(p).suffix: from the last dot of the last component, "" when there is none
RECURSIVE PathSuffix(_)
PathSuffix(p) ==
    IF p = <<>> \/ p[Len(p)] = "/" THEN <<>>
    ELSE IF p[Len(p)] = "."
         THEN (IF Len(p) = 1 \/ p[Len(p) - 1] = "/" THEN <<>> ELSE <<".">>)
    ELSE LET rest == PathSuffix(SubSeq(p, 1, Len(p) - 1))
         IN  IF rest = <<>> THEN <<>> ELSE Append(rest, p[Len(p)])
\* AudioPath.SUPPORTED_FORMATS
SUPPORTED_FORMATS == {<<".", "m", "p", "3">>, <<".", "w", "a", "v">>, <<".", "o", "g", "g">>, <<".", "m", "4", "a">>}
\* AudioPath.__post_init__ raises
AudioPathRejects(raw) ==
    \/ raw = <<>> \/ Strip(raw) = <<>>
    \/ PathSuffix(PathStr(Strip(raw))) = <<>>
    \/ ToLower(PathSuffix(PathStr(Strip(raw)))) \notin SUPPORTED_FORMATS
\* AudioPath.__post_init__: the path held after construction
AudioPathValue(raw) == PathStr(Strip(raw))

\* --------------------------------------------------- to_dict and from_dict
\* str(uuid) and uuid.UUID(text)
UuidStr(u) == <<"uuid", u>>
UuidParse(text) == text[2]
\* datetime.isoformat() and datetime.fromisoformat(text)
IsoFormat(t) == <<"iso", t>>
FromIsoFormat(text) == text[2]

\* an Optional value that is present
Some(x) == <<x>>
\* a constructor raised ValueError
ValueError == [raised |-> "ValueError"]

\* a Card with all its fields, as Card.__init__ leaves it
FullCard(id, word, translation, example, audio_path, context) ==
    [id |-> id, word |-> word, translation |-> translation, example |-> example,
     audio_path |-> audio_path, context |-> context, deck_id |-> None,
     created_at |-> 0, updated_at |-> 0]

\* Card.to_dict
Card_to_dict(c) ==
    [id |-> UuidStr(c.id),
     word |-> [value |-> c.word, normalized |-> WordNormalized(c.word)],
     translation |-> [value |-> c.translation,
                      normalized |-> TranslationNormalized(c.translation)],
     example |-> [original |-> c.example.original, translated |-> c.example.translated],
     audio_path |-> IF c.audio_path # NotSet
                    THEN Some([path |-> c.audio_path[1]]) ELSE NotSet,
     context |-> c.context,
     deck_id |-> IF c.deck_id # None THEN Some(UuidStr(c.deck_id)) ELSE NotSet,
     created_at |-> IsoFormat(c.created_at),
     updated_at |-> IsoFormat(c.updated_at)]

\* Card.from_dict: the value objects are built again by their constructors
Card_from_dict(data) ==
    IF \/ WordRejects(data.word.value)
       \/ TranslationRejects(data.translation.value)
       \/ ExampleRejects(data.example.original, data.example.translated)
       \/ (data.audio_path # NotSet /\ AudioPathRejects(data.audio_path[1].path))
    THEN ValueError
    ELSE [id |-> UuidParse(data.id),
          word |-> WordValue(data.word.value),
          translation |-> TranslationValue(data.translation.value),
          example |-> ExampleValue(data.example.original, data.example.translated),
          audio_path |-> IF data.audio_path # NotSet
                         THEN Some(AudioPathValue(data.audio_path[1].path)) ELSE NotSet,
          context |-> data.context,
          deck_id |-> IF data.deck_id # NotSet THEN UuidParse(data.deck_id[1]) ELSE None,
          created_at |-> FromIsoFormat(data.created_at),
          updated_at |-> FromIsoFormat(data.updated_at)]

\* GenerationSession.to_dict; cs holds the Card objects of generated_cards
Session_to_dict(s, cs) ==
    [id |-> UuidStr(s.id),
     context |-> s.context,
     deck_id |-> UuidStr(s.deck_id),
     status |-> s.status,
     generated_cards |-> [i \in 1..Len(s.generated_cards) |->
                             Card_to_dict(cs[s.generated_cards[i]])],
     max_cards |-> s.max_cards,
     created_at |-> IsoFormat(s.created_at),
     updated_at |-> IsoFormat(s.updated_at),
     completed_at |-> IF s.completed_at # NotSet
                      THEN Some(IsoFormat(s.completed_at[1])) ELSE NotSet,
     error_message |-> s.error_message,
     cards_generated_count |-> Len(s.generated_cards),
     is_finished |-> s.status \in {COMPLETED, FAILED, CANCELLED}]

\* GenerationSession.from_dict: the constructor validates, then the cards are
\* appended; generated_cards is the sequence of rebuilt Card objects
FromDictMutDropsCards(data) ==
    [id |-> UuidParse(data.id), context |-> Strip(data.context),
     deck_id |-> UuidParse(data.deck_id), status |-> data.status,
     max_cards |-> data.max_cards, created_at |-> FromIsoFormat(data.created_at),
     updated_at |-> FromIsoFormat(data.updated_at),
     completed_at |-> IF data.completed_at # NotSet
                      THEN At(FromIsoFormat(data.completed_at[1])) ELSE NotSet,
     error_message |-> data.error_message,
     generated_cards |-> <<>>]
Session_from_dict(data) ==
    IF \/ data.context = <<>> \/ Strip(data.context) = <<>>
       \/ ~ValidMaxCards(data.max_cards)
       \/ data.status \notin GenerationStatus
       \/ \E i \in 1..Len(data.generated_cards) :
             Card_from_dict(data.generated_cards[i]) = ValueError
    THEN ValueError
    ELSE [id |-> UuidParse(data.id), context |-> Strip(data.context),
          deck_id |-> UuidParse(data.deck_id), status |-> data.status,
          max_cards |-> data.max_cards, created_at |-> FromIsoFormat(data.created_at),
          updated_at |-> FromIsoFormat(data.updated_at),
          completed_at |-> IF data.completed_at # NotSet
                           THEN At(FromIsoFormat(data.completed_at[1])) ELSE NotSet,
          error_message |-> data.error_message,
          generated_cards |-> [i \in 1..Len(data.generated_cards) |->
                                  Card_from_dict(data.generated_cards[i])]]

\* the contexts a session of the model is built with: _validate_session strips
Contexts == {Strip(raw) : raw \in {<<"a", " ", "A">>, <<" ", "z", "o", "o", " ">>}}

SerialInit ==
    /\ \E n \in {m \in 1..MaxCards : ValidMaxCards(m)}, ctx \in Contexts :
          session = [id |-> "s1", context |-> ctx, created_at |-> 0,
                     status |-> PENDING, generated_cards |-> <<>>, max_cards |-> n,
                     deck_id |-> "d1", updated_at |-> 0, completed_at |-> NotSet,
                     error_message |-> None]
    /\ cards = [c \in CardIds |->
                  IF c = "c1"
                  THEN FullCard(c, WordValue(<<"b", "i", "g", " ", "d", "o", "g">>), TranslationValue(<<"g", "r", "a", "n", "d", "e", ",", " ", "e", "n", "o", "r", "m", "e">>),
                                ExampleValue(<<"T", "h", "e", " ", " ", "b", "i", "g", " ", "d", "o", "g", " ", "r", "u", "n", "s", ".">>, <<"O", " ", "c", "a", "c", "h", "o", "r", "r", "o", " ", "g", "r", "a", "n", "d", "e", " ", "c", "o", "r", "r", "e", ".">>),
                                Some(AudioPathValue(<<"a", "u", "d", "i", "o", "/", "/", "b", "i", "g", ".", "M", "P", "3">>)), <<"a", "n", "i", "m", "a", "l", "s">>)
                  ELSE FullCard(c, WordValue(<<"C", "a", "t">>), TranslationValue(<<"g", "a", "t", "o">>),
                                ExampleValue(<<"I", " ", "h", "a", "v", "e", " ", "a", " ", "c", "a", "t", ".">>, <<"E", "u", " ", "t", "e", "n", "h", "o", " ", "u", "m", " ", "g", "a", "t", "o", ".">>),
                                NotSet, <<>>)]
    /\ decks = [d \in DeckIds |-> [cards |-> <<>>, updated_at |-> 0]]
    /\ card = NewCard(<<"a">>)
    /\ now = 0
    /\ last = NoCall

\* session.to_dict() is taken and GenerationSession.from_dict rebuilds it
RoundTrip ==
    /\ LET rebuilt == Session_from_dict(Session_to_dict(session, cards))
       IN  last' = IF rebuilt = ValueError
                   THEN Raised("from_dict", None, "ValueError")
                   ELSE Returned("from_dict", rebuilt)
    /\ UNCHANGED <<session, cards, decks, card, now>>

SerialNext ==
    \/ start_generation
    \/ \E c \in CardIds \cup {None} : add_generated_card(c)
    \/ complete_generation
    \/ \E msg \in Messages \cup {""} : fail_generation(msg)
    \/ cancel_generation
    \/ RoundTrip

SerialSpec == SerialInit /\ [][SerialNext]_vars

\* ------------------------------------------------- Python float arithmetic
\* A Python float is an IEEE-754 double: sign * m * 2^e with a 53-bit m. The
\* significands are natural numbers held as little-endian sequences of limbs,
\* and every operation rounds its exact result to nearest, ties to even.
LimbBits == 12
MantissaBits == 53
\* extra quotient bits computed by a division before it is rounded
GuardBits == 56

RECURSIVE Pow2(_)
Pow2(k) == IF k = 0 THEN 1 ELSE 2 * Pow2(k - 1)
LimbBase == Pow2(LimbBits)

RECURSIVE BigNorm(_)
BigNorm(n) == IF n # <<>> /\ n[Len(n)] = 0 THEN BigNorm(SubSeq(n, 1, Len(n) - 1)) ELSE n

RECURSIVE BigFromInt(_)
BigFromInt(k) == IF k = 0 THEN <<>> ELSE <<k % LimbBase>> \o BigFromInt(k \div LimbBase)

LimbHead(n) == IF n = <<>> THEN 0 ELSE Head(n)
LimbTail(n) == IF n = <<>> THEN <<>> ELSE Tail(n)

RECURSIVE BigAddC(_, _, _)
BigAddC(a, b, c) ==
    IF a = <<>> /\ b = <<>> THEN (IF c = 0 THEN <<>> ELSE <<c>>)
    ELSE LET x == LimbHead(a) + LimbHead(b) + c
         IN  <<x % LimbBase>> \o BigAddC(LimbTail(a), LimbTail(b), x \div LimbBase)
BigAdd(a, b) == BigAddC(a, b, 0)

\* a - b - borrow for a >= b + borrow
RECURSIVE BigSubB(_, _, _)
BigSubB(a, b, borrow) ==
    IF a = <<>> THEN <<>>
    ELSE LET x == Head(a) - LimbHead(b) - borrow
         IN  IF x < 0 THEN <<x + LimbBase>> \o BigSubB(Tail(a), LimbTail(b), 1)
             ELSE <<x>> \o BigSubB(Tail(a), LimbTail(b), 0)
BigSub(a, b) == BigNorm(BigSubB(a, b, 0))

\* -1, 0 or 1 as a < b, a = b or a > b
RECURSIVE BigCmp(_, _)
BigCmp(a, b) ==
    IF Len(a) # Len(b) THEN (IF Len(a) < Len(b) THEN -1 ELSE 1)
    ELSE IF a = <<>> THEN 0
    ELSE IF a[Len(a)] # b[Len(b)] THEN (IF a[Len(a)] < b[Len(b)] THEN -1 ELSE 1)
    ELSE BigCmp(SubSeq(a, 1, Len(a) - 1), SubSeq(b, 1, Len(b) - 1))

RECURSIVE BigMulSmallC(_, _, _)
BigMulSmallC(a, k, c) ==
    IF a = <<>> THEN (IF c = 0 THEN <<>> ELSE <<c>>)
    ELSE LET x == Head(a) * k + c
         IN  <<x % LimbBase>> \o BigMulSmallC(Tail(a), k, x \div LimbBase)

RECURSIVE BigMul(_, _)
BigMul(a, b) ==
    IF a = <<>> \/ b = <<>> THEN <<>>
    ELSE LET rest == BigMul(a, Tail(b))
         IN  BigNorm(BigAdd(BigMulSmallC(a, Head(b), 0),
                            IF rest = <<>> THEN <<>> ELSE <<0>> \o rest))

\* a * 2^s
BigShl(a, s) ==
    IF a = <<>> THEN <<>>
    ELSE [i \in 1..(s \div LimbBits) |-> 0] \o BigMulSmallC(a, Pow2(s % LimbBits), 0)

\* the quotient of a by the small number k, from the high limb down
RECURSIVE BigDivSmallR(_, _, _)
BigDivSmallR(a, k, rem) ==
    IF a = <<>> THEN <<>>
    ELSE LET cur == rem * LimbBase + a[Len(a)]
         IN  Append(BigDivSmallR(SubSeq(a, 1, Len(a) - 1), k, cur % k), cur \div k)

\* floor(a / 2^s)
BigShr(a, s) ==
    IF s \div LimbBits >= Len(a) THEN <<>>
    ELSE BigNorm(BigDivSmallR(SubSeq(a, s \div LimbBits + 1, Len(a)),
                              Pow2(s % LimbBits), 0))

RECURSIVE SmallBitLen(_)
SmallBitLen(k) == IF k = 0 THEN 0 ELSE 1 + SmallBitLen(k \div 2)
BitLen(a) == IF a = <<>> THEN 0 ELSE LimbBits * (Len(a) - 1) + SmallBitLen(a[Len(a)])

\* bit i of a, bit 1 being the lowest
BigBit(a, i) == (a[(i - 1) \div LimbBits + 1] \div Pow2((i - 1) % LimbBits)) % 2

\* one step of the long division of n by d # 0: bit i of n is brought down
BigDivStep(n, d, i, st) ==
    LET r2 == BigAddC(st.r, st.r, BigBit(n, i))
    IN  IF BigCmp(r2, d) >= 0
        THEN [q |-> BigAddC(st.q, st.q, 1), r |-> BigSub(r2, d)]
        ELSE [q |-> BigAddC(st.q, st.q, 0), r |-> r2]

\* the steps for bits hi down to lo of n, split in halves to keep the
\* evaluation shallow; the remainder stays below d, and testing it makes the
\* upper half be evaluated before the lower half starts
RECURSIVE BigDivRange(_, _, _, _, _)
BigDivRange(n, d, hi, lo, st) ==
    IF hi = lo THEN BigDivStep(n, d, hi, st)
    ELSE LET mid == (hi + lo) \div 2
             upper == BigDivRange(n, d, hi, mid + 1, st)
         IN  IF BigCmp(upper.r, d) < 0 THEN BigDivRange(n, d, mid, lo, upper)
             ELSE upper

\* quotient and remainder of n by d # 0
BigDivMod(n, d) ==
    IF n = <<>> THEN [q |-> <<>>, r |-> <<>>]
    ELSE BigDivRange(n, d, BitLen(n), 1, [q |-> <<>>, r |-> <<>>])

FZero == [s |-> 1, m |-> <<>>, e |-> 0]
FIsZero(x) == x.m = <<>>

\* sign * q * 2^e for a q of 53 or 54 bits: 54 bits are a power of two
FPack(sign, q, e) ==
    IF BitLen(q) > MantissaBits THEN [s |-> sign, m |-> BigShr(q, 1), e |-> e + 1]
    ELSE [s |-> sign, m |-> q, e |-> e]
\* q + 1 when the part cut off exceeds a half, or is a half and either more
\* follows or q is odd
FNearest(q, half, sticky) ==
    IF half > 0 \/ (half = 0 /\ (sticky \/ q[1] % 2 = 1)) THEN BigAddC(q, <<>>, 1) ELSE q
\* n with its lowest drop bits cut off and rounded, q being n without them
FCut(sign, n, e, sticky, drop, q) ==
    FPack(sign,
          FNearest(q, BigCmp(BigSub(n, BigShl(q, drop)), BigShl(<<1>>, drop - 1)), sticky),
          e + drop)
FFit(sign, n, e, sticky, len) ==
    IF len <= MantissaBits
    THEN [s |-> sign, m |-> BigShl(n, MantissaBits - len), e |-> e - (MantissaBits - len)]
    ELSE FCut(sign, n, e, sticky, len - MantissaBits, BigShr(n, len - MantissaBits))
\* sign * n * 2^e, plus a little more when sticky, rounded to a double
FRound(sign, n, e, sticky) ==
    IF n = <<>> THEN FZero ELSE FFit(sign, n, e, sticky, BitLen(n))

\* float(k) for an int k
FInt(k) == FRound(IF k < 0 THEN -1 ELSE 1, BigFromInt(IF k < 0 THEN -k ELSE k), 0, FALSE)

FNeg(x) == IF FIsZero(x) THEN x ELSE [x EXCEPT !.s = -x.s]

\* x * y
FMul(x, y) ==
    IF FIsZero(x) \/ FIsZero(y) THEN FZero
    ELSE FRound(x.s * y.s, BigMul(x.m, y.m), x.e + y.e, FALSE)

\* sx * nx * 2^e + sy * ny * 2^e, c comparing nx with ny
FAddAligned(sx, nx, sy, ny, e, c) ==
    IF sx = sy THEN FRound(sx, BigAdd(nx, ny), e, FALSE)
    ELSE IF c = 0 THEN FZero
    ELSE FRound(IF c > 0 THEN sx ELSE sy,
                IF c > 0 THEN BigSub(nx, ny) ELSE BigSub(ny, nx), e, FALSE)
FAddCompared(sx, nx, sy, ny, e) == FAddAligned(sx, nx, sy, ny, e, BigCmp(nx, ny))
FAddAt(x, y, e) == FAddCompared(x.s, BigShl(x.m, x.e - e), y.s, BigShl(y.m, y.e - e), e)
\* x + y
FAdd(x, y) ==
    IF FIsZero(x) THEN y
    ELSE IF FIsZero(y) THEN x
    ELSE FAddAt(x, y, IF x.e < y.e THEN x.e ELSE y.e)

\* x - y
FSub(x, y) == FAdd(x, FNeg(y))

\* x / y for nonzero x and y, qr being the quotient and remainder of the
\* significands
FQuotient(x, y, qr) == FRound(x.s * y.s, qr.q, x.e - GuardBits - y.e, qr.r # <<>>)
\* x / y for y # 0
FDiv(x, y) ==
    IF FIsZero(x) THEN FZero
    ELSE FQuotient(x, y, BigDivMod(BigShl(x.m, GuardBits), y.m))

FSign(x) == IF FIsZero(x) THEN 0 ELSE x.s
\* -1, 0 or 1 as x < y, x = y or x > y
FCmp(x, y) == FSign(FSub(x, y))
FGe(x, y) == FCmp(x, y) >= 0
FGt(x, y) == FCmp(x, y) > 0
FLe(x, y) == FCmp(x, y) <= 0
FLt(x, y) == FCmp(x, y) < 0
FMax(x, y) == IF FGe(x, y) THEN x ELSE y
FMin(x, y) == IF FLe(x, y) THEN x ELSE y

\* the float a decimal literal p/q denotes, such as 0.6 for 6/10
FLit(p, q) == FDiv(FInt(p), FInt(q))
FOne == FInt(1)

\* ------------------------------------------------ difflib.SequenceMatcher
SetMax(S) == CHOOSE x \in S : \A y \in S : y <= x
SetMin(S) == CHOOSE x \in S : \A y \in S : x <= y

\* length of the block of equal characters starting at a[i] and b[j]
RECURSIVE CommonLen(_, _, _, _)
CommonLen(a, b, i, j) ==
    IF i > Len(a) \/ j > Len(b) \/ a[i] # b[j] THEN 0
    ELSE 1 + CommonLen(a, b, i + 1, j + 1)

\* SequenceMatcher.find_longest_match over the whole of a and b (no junk: the
\* autojunk heuristic needs 200 characters): the longest block, the earliest
\* in a among the longest, the earliest in b among those
find_longest_match(a, b) ==
    LET size == SetMax({0} \cup {CommonLen(a, b, i, j) : i \in 1..Len(a), j \in 1..Len(b)})
    IN  IF size = 0 THEN [i |-> 1, j |-> 1, size |-> 0]
        ELSE LET i0 == SetMin({i \in 1..Len(a) :
                                  \E j \in 1..Len(b) : CommonLen(a, b, i, j) = size})
                 j0 == SetMin({j \in 1..Len(b) : CommonLen(a, b, i0, j) = size})
             IN  [i |-> i0, j |-> j0, size |-> size]

\* SequenceMatcher.get_matching_blocks: the characters matched, the longest
\* block first and then the pieces to its left and to its right
RECURSIVE MatchingChars(_, _)
MatchedAround(a, b, m) ==
    IF m.size = 0 THEN 0
    ELSE m.size
         + MatchingChars(SubSeq(a, 1, m.i - 1), SubSeq(b, 1, m.j - 1))
         + MatchingChars(SubSeq(a, m.i + m.size, Len(a)), SubSeq(b, m.j + m.size, Len(b)))
MatchingChars(a, b) ==
    IF a = <<>> \/ b = <<>> THEN 0 ELSE MatchedAround(a, b, find_longest_match(a, b))

\* SequenceMatcher(None, a, b).ratio(): 2.0 * matches / length, 1.0 for two
\* empty strings
Ratio(a, b) ==
    IF Len(a) + Len(b) = 0 THEN FOne
    ELSE FDiv(FMul(FInt(2), FInt(MatchingChars(a, b))), FInt(Len(a) + Len(b)))

\* ---------------------------------------------- DuplicateDetectionService
\* the weights of _calculate_similarity
WordWeight == FLit(6, 10)
TranslationWeight == FLit(3, 10)
ExampleWeight == FLit(1, 10)

\* DuplicateDetectionService._calculate_similarity
calculate_similarity(card1, card2) ==
    FAdd(FAdd(FMul(Ratio(WordNormalized(card1.word), WordNormalized(card2.word)),
                   WordWeight),
              FMul(Ratio(TranslationNormalized(card1.translation),
                         TranslationNormalized(card2.translation)),
                   TranslationWeight)),
         FMul(Ratio(ExampleOriginalNormalized(card1.example),
                    ExampleOriginalNormalized(card2.example)),
              ExampleWeight))

Digits == {"0", "1", "2", "3", "4", "5", "6", "7", "8", "9"}
\* a character the pattern \w matches
IsWordChar(ch) == IsLetter(ch) \/ ch \in Digits \/ ch = "_"

\* DuplicateDetectionService._normalize_text
normalize_text(text) ==
    IF text = <<>> THEN <<>>
    ELSE Strip(CollapseSpaces(SelectSeq(ToLower(text),
                                        LAMBDA ch : IsWordChar(ch) \/ IsSpace(ch))))

\* the default threshold of are_translations_similar
TranslationThreshold == FLit(8, 10)
\* DuplicateDetectionService.are_translations_similar
are_translations_similar(translation1, translation2, threshold) ==
    FGe(Ratio(normalize_text(translation1), normalize_text(translation2)), threshold)

\* ------------------------------------------------- the cards of the model
\* the cards the service is run on: one about "algorithm", an identical copy
\* of it under another id, a variant of it in case and spacing, and two
\* cards about close words with close translations, the last of them in no
\* deck
InDeck(c, deck_id) == [c EXCEPT !.deck_id = deck_id]
AlgorithmCard ==
    InDeck(FullCard("c1", WordValue(<<"a", "l", "g", "o", "r", "i", "t", "h", "m">>), TranslationValue(<<"a", "l", "g", "o", "r", "i", "t", "m", "o">>),
                    ExampleValue(<<"A", "n", " ", "a", "l", "g", "o", "r", "i", "t", "h", "m", ".">>, <<"U", "m", " ", "a", "l", "g", "o", "r", "i", "t", "m", "o", ".">>), NotSet, <<>>), "d1")
CopyCard == [AlgorithmCard EXCEPT !.id = "c2"]
VariantCard ==
    InDeck(FullCard("c3", WordValue(<<"A", "l", "g", "o", "r", "i", "t", "h", "m", " ">>), TranslationValue(<<"A", "l", "g", "o", "r", "i", "t", "m", "o", "s", "!">>),
                    ExampleValue(<<"A", "l", "g", "o", "r", "i", "t", "h", "m", "s", " ", "r", "u", "n", ".">>, <<"A", "l", "g", "o", "r", "i", "t", "m", "o", "s", " ", "r", "o", "d", "a", "m", ".">>), NotSet, <<>>), "d1")
KittenCard ==
    InDeck(FullCard("c4", WordValue(<<"k", "i", "t", "t", "e", "n">>), TranslationValue(<<"g", "a", "t", "i", "n", "h", "o">>),
                    ExampleValue(<<"I", " ", "s", "e", "e", " ", "a", " ", "k", "i", "t", "t", "e", "n", ".">>, <<"E", "u", " ", "v", "e", "j", "o", " ", "u", "m", " ", "g", "a", "t", "i", "n", "h", "o", ".">>), NotSet, <<>>), "d1")
KittensCard ==
    FullCard("c5", WordValue(<<"k", "i", "t", "t", "e", "n", "s">>), TranslationValue(<<"G", "a", "t", "i", "n", "h", "o", "!">>),
             ExampleValue(<<"I", " ", "s", "e", "e", " ", "a", " ", "k", "i", "t", "t", "e", "n", ".">>, <<"E", "u", " ", "v", "e", "j", "o", " ", "u", "m", " ", "g", "a", "t", "i", "n", "h", "o", ".">>), NotSet, <<>>)
Pool == {AlgorithmCard, CopyCard, VariantCard, KittenCard, KittensCard}

\* the similarity of every two cards of the pool, computed once
SimilarityOnPool ==
    {<<card1, card2, calculate_similarity(card1, card2)>> : card1 \in Pool, card2 \in Pool}
Similarity(card1, card2) ==
    (CHOOSE t \in SimilarityOnPool : t[1] = card1 /\ t[2] = card2)[3]
\* are_translations_similar on the translations of every two cards of the
\* pool, with the default threshold, computed once
TranslationsSimilarOnPool ==
    {<<card1, card2>> \in Pool \X Pool :
        are_translations_similar(card1.translation, card2.translation,
                                 TranslationThreshold)}
TranslationsSimilar(card1, card2) == <<card1, card2>> \in TranslationsSimilarOnPool

\* the limit of validate_card_uniqueness on the similarity of two cards
HighSimilarity == FLit(9, 10)

\* the integer x * 10^digits rounded half to even: format(x, '.2f') for
\* digits = 2, as the number of hundredths
RECURSIVE BigToInt(_)
BigToInt(n) == IF n = <<>> THEN 0 ELSE Head(n) + LimbBase * BigToInt(Tail(n))
RECURSIVE Pow10(_)
Pow10(k) == IF k = 0 THEN 1 ELSE 10 * Pow10(k - 1)
FormatNearest(sign, q, half) ==
    sign * (q + IF half > 0 \/ (half = 0 /\ q % 2 = 1) THEN 1 ELSE 0)
FormatCut(sign, n, drop, q) ==
    FormatNearest(sign, BigToInt(q),
                  BigCmp(BigSub(n, BigShl(q, drop)), BigShl(<<1>>, drop - 1)))
FormatScaled(x, n) ==
    IF x.e >= 0 THEN x.s * BigToInt(BigShl(n, x.e))
    ELSE FormatCut(x.s, n, -x.e, BigShr(n, -x.e))
FormatFixed(x, digits) ==
    IF FIsZero(x) THEN 0 ELSE FormatScaled(x, BigMul(x.m, BigFromInt(Pow10(digits))))

\* DuplicateDetectionService.validate_card_uniqueness: the problems one
\* existing card adds, then those of the whole list
SimilarityProblem(similarity, existing_card) ==
    IF FGt(similarity, HighSimilarity)
    THEN << <<"Card muito similar", FormatFixed(similarity, 2), "ao card", existing_card.id>> >>
    ELSE <<>>
ProblemsWith(c, existing_card) ==
    IF WordNormalized(c.word) = WordNormalized(existing_card.word)
    THEN << <<"Palavra", c.word, "ja existe no card", existing_card.id>> >>
    ELSE SimilarityProblem(Similarity(c, existing_card), existing_card)
         \o (IF TranslationsSimilar(c, existing_card)
             THEN << <<"Traducao muito similar ao card", existing_card.id>> >>
             ELSE <<>>)
RECURSIVE Problems(_, _)
Problems(c, existing_cards) ==
    IF existing_cards = <<>> THEN <<>>
    ELSE ProblemsWith(c, Head(existing_cards)) \o Problems(c, Tail(existing_cards))
\* is_unique = len(problems) == 0; return is_unique, problems
UniqueIfNone(problems) == [is_unique |-> Len(problems) = 0, problems |-> problems]
ValidateMutSkipsExact(c, existing_cards) ==
    UniqueIfNone(SelectSeq(Problems(c, existing_cards), LAMBDA p : p[1] # "Palavra"))
validate_card_uniqueness(c, existing_cards) == UniqueIfNone(Problems(c, existing_cards))

\* ICardRepository.find_by_deck_id over the stored cards, in stored order
find_by_deck_id(repo, deck_id) == SelectSeq(repo, LAMBDA c : c.deck_id = deck_id)
\* DuplicateDetectionService._get_all_cards: a stub that returns no card
get_all_cards == <<>>

\* list.sort(key=score, reverse=True) is stable: x goes after every pair
\* already placed whose score is not lower
RECURSIVE InsertByScore(_, _)
InsertByScore(sorted, x) ==
    IF sorted = <<>> THEN <<x>>
    ELSE IF FGe(Head(sorted).score, x.score)
         THEN <<Head(sorted)>> \o InsertByScore(Tail(sorted), x)
         ELSE <<x>> \o sorted
RECURSIVE SortByScore(_)
SortByScore(pairs) ==
    IF pairs = <<>> THEN <<>>
    ELSE InsertByScore(SortByScore(SubSeq(pairs, 1, Len(pairs) - 1)), pairs[Len(pairs)])

\* the loop of find_duplicates_for_card: the pairs kept, in fetch order
DuplicateIf(existing_card, similarity_score, similarity_threshold) ==
    IF FGe(similarity_score, similarity_threshold)
    THEN <<[card |-> existing_card, score |-> similarity_score]>>
    ELSE <<>>
RECURSIVE Duplicates(_, _, _)
Duplicates(c, existing_cards, similarity_threshold) ==
    IF existing_cards = <<>> THEN <<>>
    ELSE (IF Head(existing_cards).id = c.id THEN <<>>
          ELSE DuplicateIf(Head(existing_cards), Similarity(c, Head(existing_cards)),
                           similarity_threshold))
         \o Duplicates(c, Tail(existing_cards), similarity_threshold)

\* DuplicateDetectionService.find_duplicates_for_card
FindMutNoSort(repo, c, similarity_threshold) ==
    Duplicates(c, IF c.deck_id # None THEN find_by_deck_id(repo, c.deck_id)
                  ELSE get_all_cards, similarity_threshold)
find_duplicates_for_card(repo, c, similarity_threshold) ==
    SortByScore(Duplicates(c, IF c.deck_id # None THEN find_by_deck_id(repo, c.deck_id)
                              ELSE get_all_cards, similarity_threshold))

\* ------------------------------------- the duplicate-detection specification
\* the longest card list the repository holds
MaxRepo == 2

SeqsOver(S, n) == UNION {[1..k -> S] : k \in 0..n}

\* the similarity thresholds find_duplicates_for_card is called with: its
\* default 0.8, and 0.35 and 1.0
Thresholds == {FLit(8, 10), FLit(35, 100), FOne}

DupInit ==
    /\ card \in Pool
    /\ cards \in SeqsOver(Pool, MaxRepo)
    /\ session = [status |-> PENDING, generated_cards |-> <<>>, max_cards |-> MinMaxCards,
                  deck_id |-> "d1", updated_at |-> 0, completed_at |-> NotSet,
                  error_message |-> None]
    /\ decks = [d \in DeckIds |-> [cards |-> <<>>, updated_at |-> 0]]
    /\ now = 0
    /\ last = NoCall

\* validate_card_uniqueness(card, existing_cards) is called
ValidateUniqueness ==
    /\ last' = Returned("validate_card_uniqueness", validate_card_uniqueness(card, cards))
    /\ UNCHANGED <<session, cards, decks, card, now>>

\* find_duplicates_for_card(card, threshold) is called on the repository
FindDuplicates(similarity_threshold) ==
    /\ last' = Returned("find_duplicates_for_card",
                        [threshold |-> similarity_threshold,
                         found |-> find_duplicates_for_card(cards, card, similarity_threshold)])
    /\ UNCHANGED <<session, cards, decks, card, now>>

\* _calculate_similarity(card, existing) is called on a stored card
CalculateSimilarity(i) ==
    /\ last' = Returned("_calculate_similarity",
                        [other |-> cards[i], score |-> Similarity(card, cards[i])])
    /\ UNCHANGED <<session, cards, decks, card, now>>

DupNext ==
    \/ ValidateUniqueness
    \/ \E t \in Thresholds : FindDuplicates(t)
    \/ \E i \in 1..Len(cards) : CalculateSimilarity(i)

DupSpec == DupInit /\ [][DupNext]_vars

\* ------------------------------------------------------ CardQualityService
EXCELLENT == "excellent"
GOOD == "good"
FAIR == "fair"
POOR == "poor"
INVALID == "invalid"
QualityLevel == {EXCELLENT, GOOD, FAIR, POOR, INVALID}

MIN_WORD_LENGTH == 3
MAX_WORD_LENGTH == 50
MIN_EXAMPLE_LENGTH == 10
MAX_EXAMPLE_LENGTH == 200
MIN_TRANSLATION_LENGTH == 2
MAX_TRANSLATION_LENGTH == 100

WORD_WEIGHT == FLit(2, 10)
TRANSLATION_WEIGHT == FLit(3, 10)
EXAMPLE_WEIGHT == FLit(4, 10)
DIVERSITY_WEIGHT == FLit(1, 10)

\* the scores the quality levels start at
EXCELLENT_SCORE == FLit(9, 10)
GOOD_SCORE == FLit(8, 10)
FAIR_SCORE == FLit(6, 10)
POOR_SCORE == FLit(4, 10)

\* the float literals 0.1, 0.2, 0.3 and 0.4 of the penalties and bonuses
F01 == FLit(1, 10)
F02 == FLit(2, 10)
F03 == FLit(3, 10)
F04 == FLit(4, 10)

\* s.replace(ch, '') for every ch of chars
RemoveChars(s, chars) == SelectSeq(s, LAMBDA ch : ch \notin chars)
\* str.isalpha(): False for the empty string
IsAlpha(s) == s # <<>> /\ \A i \in 1..Len(s) : IsLetter(s[i])
\* sub in s
Contains(s, sub) == \E i \in 1..(Len(s) - Len(sub) + 1) : SubSeq(s, i, i + Len(sub) - 1) = sub
\* str.split(): the words between runs of whitespace
RECURSIVE Split(_)
Split(s) ==
    LET t == LStrip(s)
    IN  IF t = <<>> THEN <<>>
        ELSE LET n == IF \E i \in 1..Len(t) : IsSpace(t[i])
                      THEN SetMin({i \in 1..Len(t) : IsSpace(t[i])}) - 1
                      ELSE Len(t)
             IN  <<SubSeq(t, 1, n)>> \o Split(SubSeq(t, n + 1, Len(t)))
\* max(0.0, min(1.0, score))
\* "if condition: score -= amount" and "if condition: score += amount"
Penalty(condition, amount, score) == IF condition THEN FSub(score, amount) ELSE score
Bonus(condition, amount, score) == IF condition THEN FAdd(score, amount) ELSE score

ClampMutNoUpper(score) == FMax(FZero, score)
Clamp(score) == FMax(FZero, FMin(FOne, score))

common_words ==
    {<<"t", "h", "e">>, <<"a", "n", "d">>, <<"o", "r">>, <<"b", "u", "t">>, <<"i", "n">>, <<"o", "n">>, <<"a", "t">>, <<"t", "o">>, <<"f", "o", "r">>, <<"o", "f">>, <<"w", "i", "t", "h">>, <<"b", "y">>}
\* CardQualityService._evaluate_word
evaluate_word(word) ==
    LET word_length == Len(word)
        short == word_length < MIN_WORD_LENGTH
        long == ~short /\ word_length > MAX_WORD_LENGTH
        invalid == ~IsAlpha(RemoveChars(word, {" "}))
        common == ToLower(word) \in common_words
        phrase == Len(Split(word)) > 5
        score == Penalty(phrase, F03, Penalty(common, F02, Penalty(invalid, F04,
                     Penalty(long, F02, Penalty(short, F03, FOne)))))
    IN  [score |-> Clamp(score),
         issues |-> (IF short THEN << <<"Palavra muito curta", word_length>> >> ELSE <<>>)
                    \o (IF long THEN << <<"Palavra muito longa", word_length>> >> ELSE <<>>)
                    \o (IF invalid THEN << <<"Palavra contem caracteres invalidos">> >> ELSE <<>>)
                    \o (IF common THEN << <<"Palavra muito comum">> >> ELSE <<>>)
                    \o (IF phrase THEN << <<"Frase muito longa">> >> ELSE <<>>),
         suggestions |-> (IF common THEN << <<"Use palavras mais especificas">> >> ELSE <<>>)
                         \o (IF phrase THEN << <<"Mantenha foco em uma palavra">> >> ELSE <<>>)]

generic_translations == {<<"c", "o", "i", "s", "a">>, <<"a", "l", "g", "o">>, <<"i", "t", "e", "m">>, <<"o", "b", "j", "e", "t", "o">>, <<"e", "l", "e", "m", "e", "n", "t", "o">>}
\* CardQualityService._evaluate_translation
evaluate_translation(translation) ==
    LET translation_length == Len(translation)
        short == translation_length < MIN_TRANSLATION_LENGTH
        long == ~short /\ translation_length > MAX_TRANSLATION_LENGTH
        invalid == ~IsAlpha(RemoveChars(translation, {" ", ",", ";", "(", ")"}))
        multiple == \E i \in 1..Len(translation) : translation[i] \in {",", ";"}
        generic == \E gen \in generic_translations : Contains(ToLower(translation), gen)
        score == Penalty(generic, F02, Bonus(multiple, F01, Penalty(invalid, F03,
                     Penalty(long, F02, Penalty(short, F04, FOne)))))
    IN  [score |-> Clamp(score),
         issues |-> (IF short THEN << <<"Traducao muito curta", translation_length>> >> ELSE <<>>)
                    \o (IF long THEN << <<"Traducao muito longa", translation_length>> >> ELSE <<>>)
                    \o (IF invalid THEN << <<"Traducao contem caracteres invalidos">> >> ELSE <<>>)
                    \o (IF generic THEN << <<"Traducao muito generica">> >> ELSE <<>>),
         suggestions |-> (IF multiple THEN << <<"Boa! Multiplas traducoes">> >> ELSE <<>>)
                         \o (IF generic THEN << <<"Use traducoes mais especificas">> >> ELSE <<>>)]

generic_examples ==
    {<<"t", "h", "i", "s", " ", "i", "s", " ", "a">>, <<"t", "h", "a", "t", " ", "i", "s", " ", "a">>, <<"i", "t", " ", "i", "s", " ", "a">>, <<"h", "e", "r", "e", " ", "i", "s", " ", "a">>, <<"t", "h", "e", "r", "e", " ", "i", "s", " ", "a">>}
\* CardQualityService._evaluate_example
evaluate_example(original, translated) ==
    LET original_length == Len(original)
        translated_length == Len(translated)
        short == original_length < MIN_EXAMPLE_LENGTH
        long == ~short /\ original_length > MAX_EXAMPLE_LENGTH
        short_translated == translated_length < MIN_EXAMPLE_LENGTH
        generic == \E gen \in generic_examples : Contains(ToLower(original), gen)
        has_words == Len(Split(ToLower(original))) > 0
        score == Bonus(has_words, F01, Penalty(generic, F03, Penalty(short_translated, F03,
                     Penalty(long, F02, Penalty(short, F04, FOne)))))
    IN  [score |-> Clamp(score),
         issues |-> (IF short THEN << <<"Exemplo muito curto", original_length>> >> ELSE <<>>)
                    \o (IF long THEN << <<"Exemplo muito longo", original_length>> >> ELSE <<>>)
                    \o (IF short_translated
                        THEN << <<"Traducao do exemplo muito curta", translated_length>> >>
                        ELSE <<>>)
                    \o (IF generic THEN << <<"Exemplo muito generico">> >> ELSE <<>>),
         suggestions |-> IF generic THEN << <<"Use exemplos mais especificos">> >> ELSE <<>>]

\* CardQualityService._evaluate_diversity
evaluate_diversity(c, context_cards) ==
    IF context_cards = <<>> THEN FOne
    ELSE LET similar_count ==
                 Cardinality({i \in 1..Len(context_cards) :
                     \/ WordNormalized(c.word) = WordNormalized(context_cards[i].word)
                     \/ TranslationNormalized(c.translation)
                            = TranslationNormalized(context_cards[i].translation)})
             total_cards == Len(context_cards)
         IN  Clamp(FSub(FOne, FDiv(FInt(similar_count), FInt(total_cards))))

\* CardQualityService._determine_quality_level
LevelMutIgnoresIssues(score, issues) ==
    IF FGe(score, EXCELLENT_SCORE) THEN EXCELLENT
    ELSE IF FGe(score, GOOD_SCORE) THEN GOOD
    ELSE IF FGe(score, FAIR_SCORE) THEN FAIR
    ELSE IF FGe(score, POOR_SCORE) THEN POOR
    ELSE INVALID
determine_quality_level(score, issues) ==
    IF FGe(score, EXCELLENT_SCORE) /\ Len(issues) = 0 THEN EXCELLENT
    ELSE IF FGe(score, GOOD_SCORE) /\ Len(issues) <= 1 THEN GOOD
    ELSE IF FGe(score, FAIR_SCORE) /\ Len(issues) <= 3 THEN FAIR
    ELSE IF FGe(score, POOR_SCORE) THEN POOR
    ELSE INVALID

\* evaluate_card, the weighted sum of the four scores
OverallMutDiversityHeavy(word_score, translation_score, example_score, diversity_score) ==
    FAdd(FAdd(FAdd(FMul(word_score, WORD_WEIGHT),
                   FMul(translation_score, TRANSLATION_WEIGHT)),
              FMul(example_score, DIVERSITY_WEIGHT)),
         FMul(diversity_score, EXAMPLE_WEIGHT))
OverallScore(word_score, translation_score, example_score, diversity_score) ==
    FAdd(FAdd(FAdd(FMul(word_score, WORD_WEIGHT),
                   FMul(translation_score, TRANSLATION_WEIGHT)),
              FMul(example_score, EXAMPLE_WEIGHT)),
         FMul(diversity_score, DIVERSITY_WEIGHT))
\* QualityReport(...) as evaluate_card builds it from the three evaluations
QualityReport(c, w, t, e, diversity_score, overall_score, issues) ==
    [card |-> c,
     overall_score |-> overall_score,
     quality_level |-> determine_quality_level(overall_score, issues),
     issues |-> issues,
     suggestions |-> w.suggestions \o t.suggestions \o e.suggestions,
     metrics |-> [word_score |-> w.score, translation_score |-> t.score,
                  example_score |-> e.score, diversity_score |-> diversity_score]]
EvaluatedCard(c, w, t, e, diversity_score) ==
    QualityReport(c, w, t, e, diversity_score,
                  OverallScore(w.score, t.score, e.score, diversity_score),
                  w.issues \o t.issues \o e.issues)
\* CardQualityService.evaluate_card; context_cards is <<>> for None and for []
evaluate_card(c, context_cards) ==
    EvaluatedCard(c, evaluate_word(c.word), evaluate_translation(c.translation),
                  evaluate_example(c.example.original, c.example.translated),
                  IF context_cards # <<>> THEN evaluate_diversity(c, context_cards) ELSE FOne)

\* --------------------------------------------- the quality specifications
\* cards of every quality, besides those above: a two-letter common word with generic translations
\* and a generic example, a hyphenated word with a one-letter translation, a
\* six-word phrase with punctuation in its translation and an example over
\* 200 characters, and a word over 50 letters with a translation over 100
OfCard ==
    InDeck(FullCard("c6", WordValue(<<"o", "f">>), TranslationValue(<<"c", "o", "i", "s", "a", ",", " ", "a", "l", "g", "o">>),
                    ExampleValue(<<"T", "h", "i", "s", " ", "i", "s", " ", "a", " ", "k", "i", "n", "d", " ", "o", "f", " ", "t", "h", "i", "n", "g", ".">>, <<"I", "s", "t", "o", " ", "e", " ", "u", "m", " ", "t", "i", "p", "o", " ", "d", "e", " ", "c", "o", "i", "s", "a", ".">>),
                    NotSet, <<>>), "d1")
HyphenCard ==
    InDeck(FullCard("c7", WordValue(<<"w", "e", "l", "l", "-", "k", "n", "o", "w", "n">>), TranslationValue(<<"a">>),
                    ExampleValue(<<"A", " ", "w", "e", "l", "l", "-", "k", "n", "o", "w", "n", " ", "s", "o", "n", "g", ".">>, <<"U", "m", "a", " ", "m", "u", "s", "i", "c", "a", " ", "f", "a", "m", "o", "s", "a", ".">>),
                    NotSet, <<>>), "d1")
PhraseCard ==
    InDeck(FullCard("c8", WordValue(<<"a", " ", "b", " ", "c", " ", "d", " ", "e", " ", "f">>), TranslationValue(<<"G", "a", "t", "i", "n", "h", "o", "!">>),
                    ExampleValue([i \in 1..(MAX_EXAMPLE_LENGTH + 1) |-> "a"],
                                 <<"E", "u", " ", "v", "e", "j", "o", " ", "u", "m", " ", "g", "a", "t", "i", "n", "h", "o", ".">>),
                    NotSet, <<>>), "d1")
LongCard ==
    InDeck(FullCard("c9", WordValue([i \in 1..(MAX_WORD_LENGTH + 1) |-> "a"]),
                    TranslationValue([i \in 1..(MAX_TRANSLATION_LENGTH + 1) |-> "b"]),
                    ExampleValue(<<"I", " ", "s", "e", "e", " ", "a", " ", "k", "i", "t", "t", "e", "n", ".">>, <<"E", "u", " ", "v", "e", "j", "o", " ", "u", "m", " ", "g", "a", "t", "i", "n", "h", "o", ".">>),
                    NotSet, <<>>), "d1")
QualityPool == {AlgorithmCard, KittenCard, OfCard, HyphenCard, PhraseCard, LongCard}

QualityInit ==
    /\ card \in QualityPool
    /\ cards \in SeqsOver(QualityPool, MaxRepo)
    /\ session = [status |-> PENDING, generated_cards |-> <<>>, max_cards |-> MinMaxCards,
                  deck_id |-> "d1", updated_at |-> 0, completed_at |-> NotSet,
                  error_message |-> None]
    /\ decks = [d \in DeckIds |-> [cards |-> <<>>, updated_at |-> 0]]
    /\ now = 0
    /\ last = NoCall

\* evaluate_card(card, context_cards) is called
EvaluateCard ==
    /\ last' = Returned("evaluate_card", evaluate_card(card, cards))
    /\ UNCHANGED <<session, cards, decks, card, now>>

QualityNext == EvaluateCard

QualitySpec == QualityInit /\ [][QualityNext]_vars

\* the longest list of issues _determine_quality_level is called with
MaxIssues == 4
\* the scores it is called with: the twentieths from 0.0 to 1.0, and the
\* float just below 0.9 that 0.6 + 0.3 gives
Scores == {FLit(k, 20) : k \in 0..20} \cup {FAdd(FLit(6, 10), FLit(3, 10))}
IssueLists == {[i \in 1..n |-> <<"issue">>] : n \in 0..MaxIssues}

LevelInit ==
    /\ card = AlgorithmCard
    /\ cards = <<>>
    /\ session = [status |-> PENDING, generated_cards |-> <<>>, max_cards |-> MinMaxCards,
                  deck_id |-> "d1", updated_at |-> 0, completed_at |-> NotSet,
                  error_message |-> None]
    /\ decks = [d \in DeckIds |-> [cards |-> <<>>, updated_at |-> 0]]
    /\ now = 0
    /\ last = NoCall

\* _determine_quality_level(score, issues) is called
DetermineQualityLevel(score, issues) ==
    /\ last' = Returned("_determine_quality_level",
                        [score |-> score, issues |-> issues,
                         level |-> determine_quality_level(score, issues)])
    /\ UNCHANGED <<session, cards, decks, card, now>>

LevelNext == \E score \in Scores, issues \in IssueLists : DetermineQualityLevel(score, issues)

LevelSpec == LevelInit /\ [][LevelNext]_vars

\* ------------------------------------------------- suggest_alternatives
\* str.endswith and str.startswith
EndsWith(s, suffix) ==
    Len(suffix) <= Len(s) /\ SubSeq(s, Len(s) - Len(suffix) + 1, Len(s)) = suffix
StartsWith(s, prefix) == Len(prefix) <= Len(s) /\ SubSeq(s, 1, Len(prefix)) = prefix

suffixes == <<<<"i", "n", "g">>, <<"e", "d">>, <<"s">>, <<"l", "y">>>>
prefixes == <<<<"u", "n">>, <<"r", "e">>, <<"p", "r", "e">>, <<"m", "i", "s">>>>

\* suggest_alternatives, lines 215-229: the variations of a single word
Variations(word) ==
    IF Len(Split(word)) = 1
    THEN {word \o suffixes[i] : i \in {k \in 1..Len(suffixes) : ~EndsWith(word, suffixes[k])}}
         \cup {prefixes[i] \o word : i \in {k \in 1..Len(prefixes) : ~StartsWith(word, prefixes[k])}}
    ELSE {}

\* the most suggestions suggest_alternatives returns
MAX_SUGGESTIONS == 5

\* list(set(suggestions))[:5]: the first five of the set in an order the
\* program does not fix, so any five distinct elements in any order
FirstOfSet(S) ==
    LET n == IF Cardinality(S) < MAX_SUGGESTIONS THEN Cardinality(S) ELSE MAX_SUGGESTIONS
    IN  {r \in [1..n -> S] : \A i, j \in 1..n : i # j => r[i] # r[j]}

\* the loop over existing_cards reads card.example.word_count, an attribute
\* Example does not have (it has word_count_original and
\* word_count_translated): the first card raises AttributeError
AttributeError == [raised |-> "AttributeError"]

\* DuplicateDetectionService.suggest_alternatives: the lists it can return,
\* or AttributeError
suggest_alternatives(word, existing_cards) ==
    IF existing_cards # <<>> THEN {AttributeError}
    ELSE FirstOfSet(Variations(word))

\* the words suggest_alternatives is called with: a word that has one of the
\* prefixes and one of the suffixes, which leaves six variations, and a phrase
SuggestWords == {<<"r", "e", "d", "o", "i", "n", "g">>, <<"b", "i", "g", " ", "d", "o", "g">>}

\* suggest_alternatives(word, existing_cards) is called
SuggestAlternatives(word) ==
    /\ \E r \in suggest_alternatives(word, cards) :
          last' = IF r = AttributeError
                  THEN Raised("suggest_alternatives", word, "AttributeError")
                  ELSE Returned("suggest_alternatives", [word |-> word, suggestions |-> r])
    /\ UNCHANGED <<session, cards, decks, card, now>>

SuggestInit ==
    /\ card = AlgorithmCard
    /\ cards \in SeqsOver({AlgorithmCard, KittenCard}, MaxRepo)
    /\ session = [status |-> PENDING, generated_cards |-> <<>>, max_cards |-> MinMaxCards,
                  deck_id |-> "d1", updated_at |-> 0, completed_at |-> NotSet,
                  error_message |-> None]
    /\ decks = [d \in DeckIds |-> [cards |-> <<>>, updated_at |-> 0]]
    /\ now = 0
    /\ last = NoCall

SuggestNext == \E word \in SuggestWords : SuggestAlternatives(word)

SuggestSpec == SuggestInit /\ [][SuggestNext]_vars

\* ------------------------------------------- Deck: removal and batches
\* the longest card sequence of a deck, and the largest
\* max_cards_per_generation
MaxDeckLen == 3
MaxBatch == 2

\* Deck._validate_deck: max_cards_per_generation is between 1 and 20
ValidBatchSize(n) == 1 <= n /\ n <= 20

\* Deck.remove_card, the loop: the sequence without the first card of that id
RemoveMutLastOccurrence(cs, card_id) ==
    LET i == SetMax({k \in 1..Len(cs) : cs[k] = card_id})
    IN  SubSeq(cs, 1, i - 1) \o SubSeq(cs, i + 1, Len(cs))
RemoveFirst(cs, card_id) ==
    LET i == SetMin({k \in 1..Len(cs) : cs[k] = card_id})
    IN  SubSeq(cs, 1, i - 1) \o SubSeq(cs, i + 1, Len(cs))

\* Deck.remove_card on deck d
Deck_remove_card(d, card_id) ==
    /\ IF \E k \in 1..Len(decks[d].cards) : decks[d].cards[k] = card_id
       THEN \E t \in Later(now) :
            /\ decks' = [decks EXCEPT ![d].cards = RemoveFirst(@, card_id),
                                      ![d].updated_at = t]
            /\ now' = t
            /\ last' = Returned("Deck.remove_card",
                                [deck |-> d, card_id |-> card_id, result |-> TRUE])
       ELSE /\ last' = Returned("Deck.remove_card",
                                [deck |-> d, card_id |-> card_id, result |-> FALSE])
            /\ UNCHANGED <<decks, now>>
    /\ UNCHANGED <<session, cards, card>>

\* range(0, len(cards), n) and cards[i:i + n]: the slices of n cards, the last
\* one shorter when n does not divide the length
BatchesMutDropsPartial(cs, n) ==
    [k \in 1..(Len(cs) \div n) |-> SubSeq(cs, (k - 1) * n + 1, k * n)]
Batches(cs, n) ==
    [k \in 1..((Len(cs) + n - 1) \div n) |->
        SubSeq(cs, (k - 1) * n + 1, IF k * n < Len(cs) THEN k * n ELSE Len(cs))]

\* Deck.get_generation_batches on deck d
Deck_get_generation_batches(d) ==
    /\ last' = Returned("Deck.get_generation_batches",
                        [deck |-> d,
                         batches |-> Batches(decks[d].cards,
                                             decks[d].max_cards_per_generation)])
    /\ UNCHANGED <<session, cards, decks, card, now>>

\* the ids remove_card is called with: those of the cards and one of no card
RemovedIds == CardIds \cup {"c0"}

\* decks as add_card calls leave them: deck d1 holds a sequence of cards, a
\* card possibly more than once, and each card in it is assigned to d1
BatchInit ==
    /\ \E cs \in SeqsOver(CardIds, MaxDeckLen), n \in {m \in 1..MaxBatch : ValidBatchSize(m)} :
          /\ decks = [d \in DeckIds |->
                        [cards |-> IF d = "d1" THEN cs ELSE <<>>, updated_at |-> 0,
                         max_cards_per_generation |-> n]]
          /\ cards = [c \in CardIds |->
                        IF \E k \in 1..Len(cs) : cs[k] = c
                        THEN assign_to_deck(NewCard(<<"a">>), "d1", 0)
                        ELSE NewCard(<<"a">>)]
    /\ session = [status |-> PENDING, generated_cards |-> <<>>, max_cards |-> MinMaxCards,
                  deck_id |-> "d1", updated_at |-> 0, completed_at |-> NotSet,
                  error_message |-> None]
    /\ card = NewCard(<<"a">>)
    /\ now = 0
    /\ last = NoCall

BatchNext ==
    \/ Tick
    \/ \E d \in DeckIds, card_id \in RemovedIds : Deck_remove_card(d, card_id)
    \/ \E d \in DeckIds : Deck_get_generation_batches(d)

BatchSpec == BatchInit /\ [][BatchNext]_vars

\* ------------------------------------------- DeckRepository on MongoDB
\* the most documents the decks collection holds
MaxDocs == 2

\* bson.ObjectId is 12 bytes, written as 24 hexadecimal digits; uuid.UUID is
\* 16 bytes, written as 32 hexadecimal digits in groups of 8-4-4-4-12
ObjectIdHexLen == 24
UuidHexLen == 32
HexDigits == {"0", "1", "2", "3", "4", "5", "6", "7", "8", "9",
              "a", "b", "c", "d", "e", "f"}
IsHex(s) == \A i \in 1..Len(s) : s[i] \in HexDigits
Repeat(ch, n) == [i \in 1..n |-> ch]

InvalidId == [raised |-> "InvalidId"]
RepositoryError == [raised |-> "RepositoryError"]
\* find_one found no document; find_by_id returns None
NoDeck == [none |-> TRUE]

\* ObjectId(): the k-th id the driver generates
HexDigitSeq == <<"0", "1", "2", "3", "4", "5", "6", "7", "8", "9",
                 "a", "b", "c", "d", "e", "f">>
NewObjectId(k) == [oid |-> Repeat("0", ObjectIdHexLen - 1) \o <<HexDigitSeq[k + 1]>>]
\* str(object_id)
to_string_id(object_id) == object_id.oid
\* ObjectId(s) of a string: 24 hexadecimal digits, or InvalidId
ObjectId(s) ==
    IF Len(s) = ObjectIdHexLen /\ IsHex(s) THEN [oid |-> s] ELSE InvalidId

\* str.strip(chars)
StripChars(s, chars) ==
    LET keep == {i \in 1..Len(s) : s[i] \notin chars}
    IN  IF keep = {} THEN <<>> ELSE SubSeq(s, SetMin(keep), SetMax(keep))
\* uuid.UUID(hex) of a string without "urn:" or "uuid:": braces stripped,
\* hyphens removed, then 32 hexadecimal digits or ValueError
UUID(s) ==
    LET hex == RemoveChars(StripChars(s, {"{", "}"}), {"-"})
    IN  IF Len(hex) # UuidHexLen \/ ~IsHex(hex) THEN ValueError ELSE [uuid |-> hex]
\* str(uuid), with the digits written out
UuidCanonical(u) ==
    SubSeq(u.uuid, 1, 8) \o <<"-">> \o SubSeq(u.uuid, 9, 12) \o <<"-">>
        \o SubSeq(u.uuid, 13, 16) \o <<"-">> \o SubSeq(u.uuid, 17, 20) \o <<"-">>
        \o SubSeq(u.uuid, 21, 32)

\* Deck(title, description, max_cards_per_generation) with a uuid4 id and no
\* cards; the timestamps are left out of the entity and of the document
NewDeck(id, title, description, n) ==
    [id |-> id, title |-> title, description |-> description, cards |-> <<>>,
     max_cards_per_generation |-> n]
Deck_to_dict(deck) ==
    [id |-> UuidCanonical(deck.id), title |-> deck.title, description |-> deck.description,
     cards |-> deck.cards, max_cards_per_generation |-> deck.max_cards_per_generation,
     card_count |-> Len(deck.cards), is_empty |-> deck.cards = <<>>]
\* Deck.from_dict: ValueError when data["id"] is no UUID
Deck_from_dict(data) ==
    LET id == UUID(data.id)
    IN  IF id = ValueError THEN ValueError
        ELSE NewDeck(id, data.title, data.description, data.max_cards_per_generation)

\* DeckSchema.to_document with the ObjectId it generates, and from_document
DeckSchema_to_document(deck_data, object_id) ==
    [_id |-> object_id, title |-> deck_data.title, description |-> deck_data.description,
     max_cards_per_generation |-> deck_data.max_cards_per_generation,
     card_count |-> deck_data.card_count, is_empty |-> deck_data.is_empty]
DeckSchema_from_document(document) ==
    [id |-> to_string_id(document._id), title |-> document.title,
     description |-> document.description, cards |-> <<>>,
     max_cards_per_generation |-> document.max_cards_per_generation,
     card_count |-> document.card_count, is_empty |-> document.is_empty]

\* DeckRepository.save: the collection after insert_one, and the deck
\* returned or RepositoryError
save(collection, deck) ==
    LET document == DeckSchema_to_document(Deck_to_dict(deck), NewObjectId(Len(collection) + 1))
        id == UUID(to_string_id(document._id))
    IN  [collection |-> Append(collection, document),
         result |-> IF id = ValueError THEN RepositoryError ELSE [deck EXCEPT !.id = id]]

\* collection.find_one({"_id": object_id})
find_one(collection, object_id) ==
    IF \E i \in 1..Len(collection) : collection[i]._id = object_id
    THEN collection[CHOOSE i \in 1..Len(collection) : collection[i]._id = object_id]
    ELSE NoDeck

\* DeckRepository.find_by_id: a Deck, NoDeck or RepositoryError; no card
\* documents are stored, so the deck found has no cards
find_by_id(collection, deck_id) ==
    LET object_id == ObjectId(UuidCanonical(deck_id))
    IN  IF object_id = InvalidId THEN RepositoryError
        ELSE LET document == find_one(collection, object_id)
             IN  IF document = NoDeck THEN NoDeck
                 ELSE LET deck == Deck_from_dict(DeckSchema_from_document(document))
                      IN  IF deck = ValueError THEN RepositoryError ELSE deck

\* the decks handed to save
DeckUuids == {[uuid |-> Repeat("a", UuidHexLen)], [uuid |-> Repeat("b", UuidHexLen)]}
DeckTitles == {<<"D", "e", "c", "k", " ", "d", "e", " ", "T", "e", "s", "t", "e">>, <<"V", "e", "r", "b", "s">>}
DeckDescriptions == {<<>>, <<"D", "e", "c", "k", " ", "c", "r", "i", "a", "d", "o", " ", "p", "a", "r", "a", " ", "t", "e", "s", "t", "e", "s">>}
BatchSizes == {5, 10}
NewDecks ==
    {NewDeck(id, title, description, n) :
        id \in DeckUuids, title \in DeckTitles, description \in DeckDescriptions,
        n \in {m \in BatchSizes : ValidBatchSize(m)}}

DeckRepository_save(deck) ==
    /\ Len(decks) < MaxDocs
    /\ LET saved == save(decks, deck)
       IN  /\ decks' = saved.collection
           /\ last' = IF saved.result = RepositoryError
                      THEN Raised("DeckRepository.save", deck, RepositoryError)
                      ELSE Returned("DeckRepository.save", saved.result)
    /\ UNCHANGED <<session, cards, card, now>>

\* the ids find_by_id is asked for: those of the decks handed to save and the
\* one the last save reported
AskedIds ==
    DeckUuids \cup (IF last.op = "DeckRepository.save" /\ last.ok THEN {last.arg.id} ELSE {})

DeckRepository_find_by_id(deck_id) ==
    /\ LET found == find_by_id(decks, deck_id)
       IN  last' = IF found = RepositoryError
                   THEN Raised("DeckRepository.find_by_id", deck_id, RepositoryError)
                   ELSE Returned("DeckRepository.find_by_id", [deck_id |-> deck_id, found |-> found])
    /\ UNCHANGED <<session, cards, decks, card, now>>

RepoInit ==
    /\ decks = <<>>
    /\ cards = [c \in CardIds |-> NewCard(<<"a">>)]
    /\ session = [status |-> PENDING, generated_cards |-> <<>>, max_cards |-> MinMaxCards,
                  deck_id |-> "d1", updated_at |-> 0, completed_at |-> NotSet,
                  error_message |-> None]
    /\ card = NewCard(<<"a">>)
    /\ now = 0
    /\ last = NoCall

RepoNext ==
    \/ \E deck \in NewDecks : DeckRepository_save(deck)
    \/ \E deck_id \in AskedIds : DeckRepository_find_by_id(deck_id)

RepoSpec == RepoInit /\ [][RepoNext]_vars

\* ------------------------------------------------- cards owned by decks
\* the most cards one deck holds when lists of cards are added
MaxOwned == 2

\* the position of the first None in a list of cards, Len + 1 when it has none
FirstNone(cs) ==
    IF \E i \in 1..Len(cs) : cs[i] = None
    THEN CHOOSE i \in 1..Len(cs) : cs[i] = None /\ \A j \in 1..(i - 1) : cs[j] # None
    ELSE Len(cs) + 1

\* Deck.add_cards on deck d: add_card for each card in turn; the loop stops
\* at the first None, which add_card rejects, with the cards before it added
Deck_add_cards(d, cs) ==
    /\ Len(decks[d].cards) + (FirstNone(cs) - 1) <= MaxOwned
    /\ IF FirstNone(cs) = 1
       THEN /\ last' = IF cs = <<>>
                       THEN Returned("Deck.add_cards", [deck |-> d, cards |-> cs])
                       ELSE Raised("Deck.add_cards", [deck |-> d, cards |-> cs],
                                   "Card cannot be None")
            /\ UNCHANGED <<cards, decks, now>>
       ELSE \E t \in Later(now) :
            /\ cards' = [c \in CardIds |->
                           IF \E i \in 1..(FirstNone(cs) - 1) : cs[i] = c
                           THEN assign_to_deck(cards[c], d, now)
                           ELSE cards[c]]
            /\ decks' = [decks EXCEPT ![d].cards = @ \o SubSeq(cs, 1, FirstNone(cs) - 1),
                                      ![d].updated_at = t]
            /\ now' = t
            /\ last' = IF FirstNone(cs) <= Len(cs)
                       THEN Raised("Deck.add_cards", [deck |-> d, cards |-> cs],
                                   "Card cannot be None")
                       ELSE Returned("Deck.add_cards", [deck |-> d, cards |-> cs])
    /\ UNCHANGED <<session, card>>

\* Deck.clear_cards on deck d
Deck_clear_cards(d) ==
    /\ \E t \in Later(now) :
          /\ decks' = [decks EXCEPT ![d].cards = <<>>, ![d].updated_at = t]
          /\ now' = t
    /\ last' = Returned("Deck.clear_cards", d)
    /\ UNCHANGED <<session, cards, card>>

\* the lists add_cards is called with
CardLists == SeqsOver(CardIds \cup {None}, MaxOwned)

\* several decks and the cards added to, removed from and cleared out of them
OwnNext ==
    \/ Tick
    \/ \E d \in DeckIds, c \in CardIds \cup {None} : Deck_add_card(d, c)
    \/ \E d \in DeckIds, cs \in CardLists : Deck_add_cards(d, cs)
    \/ \E d \in DeckIds, card_id \in RemovedIds : Deck_remove_card(d, card_id)
    \/ \E d \in DeckIds : Deck_clear_cards(d)

OwnSpec == Init /\ [][OwnNext]_vars

\* ------------------------- decks, cards and sessions stored on MongoDB
\* the three collections: the variable decks holds the documents of 'decks',
\* cards those of 'cards' and session those of 'generation_sessions'

\* a Card and a GenerationSession as the repositories are handed them: ids
\* are uuid.UUIDs, a card has a deck or NoDeck, a session logs Card objects
StoreCard(id, word, deck_id) == [id |-> id, word |-> word, deck_id |-> deck_id]
StoreSession(id, deck_id, status, max_cards, generated_cards) ==
    [id |-> id, deck_id |-> deck_id, status |-> status, max_cards |-> max_cards,
     generated_cards |-> generated_cards]

\* Card.to_dict and GenerationSession.to_dict, the keys the schemas read:
\* str(uuid) for the ids, None for a card without deck
CardData(c) ==
    [id |-> UuidCanonical(c.id), word |-> c.word,
     deck_id |-> IF c.deck_id = NoDeck THEN NoDeck ELSE UuidCanonical(c.deck_id)]
SessionData(s) ==
    [id |-> UuidCanonical(s.id), deck_id |-> UuidCanonical(s.deck_id),
     status |-> s.status, max_cards |-> s.max_cards,
     cards_generated_count |-> Len(s.generated_cards)]

\* CardSchema.to_document and GenerationSessionSchema.to_document: deck_id
\* goes through ObjectId(...) when it is not None, which may raise InvalidId
CardSchema_to_document(card_data, object_id) ==
    IF card_data.deck_id # NoDeck /\ ObjectId(card_data.deck_id) = InvalidId
    THEN InvalidId
    ELSE [_id |-> object_id, word |-> card_data.word,
          deck_id |-> IF card_data.deck_id = NoDeck THEN NoDeck
                      ELSE ObjectId(card_data.deck_id)]
GenerationSessionSchema_to_document(session_data, object_id) ==
    IF ObjectId(session_data.deck_id) = InvalidId
    THEN InvalidId
    ELSE [_id |-> object_id, deck_id |-> ObjectId(session_data.deck_id),
          status |-> session_data.status, max_cards |-> session_data.max_cards,
          cards_generated_count |-> session_data.cards_generated_count]

\* CardSchema.from_document and GenerationSessionSchema.from_document
CardSchema_from_document(document) ==
    [id |-> to_string_id(document._id), word |-> document.word,
     deck_id |-> IF document.deck_id = NoDeck THEN NoDeck
                 ELSE to_string_id(document.deck_id)]
GenerationSessionSchema_from_document(document) ==
    [id |-> to_string_id(document._id), deck_id |-> to_string_id(document.deck_id),
     status |-> document.status, generated_cards |-> <<>>,
     max_cards |-> document.max_cards,
     cards_generated_count |-> document.cards_generated_count]

\* Card.from_dict and GenerationSession.from_dict: uuid.UUID(...) of the ids
StoreCard_from_dict(data) ==
    IF UUID(data.id) = ValueError THEN ValueError
    ELSE IF data.deck_id # NoDeck /\ UUID(data.deck_id) = ValueError THEN ValueError
    ELSE StoreCard(UUID(data.id), data.word,
                   IF data.deck_id = NoDeck THEN NoDeck ELSE UUID(data.deck_id))
StoreSession_from_dict(data) ==
    IF UUID(data.id) = ValueError \/ UUID(data.deck_id) = ValueError
       \/ ~ValidMaxCards(data.max_cards) \/ data.status \notin GenerationStatus
    THEN ValueError
    ELSE StoreSession(UUID(data.id), UUID(data.deck_id), data.status, data.max_cards, <<>>)

\* ObjectId(): the ids the driver generates are distinct over the collections
NextObjectId(store) ==
    NewObjectId(Len(store.decks) + Len(store.cards) + Len(store.sessions) + 1)

\* CardRepository.save and GenerationSessionRepository.save: to_document,
\* insert_one, then uuid.UUID(str(result.inserted_id)); every exception ends
\* in RepositoryError
CardRepository_saved(store, c) ==
    IF CardSchema_to_document(CardData(c), NextObjectId(store)) = InvalidId
    THEN [store |-> store, result |-> RepositoryError]
    ELSE [store |-> [store EXCEPT !.cards =
                        Append(@, CardSchema_to_document(CardData(c), NextObjectId(store)))],
          result |-> IF UUID(to_string_id(NextObjectId(store))) = ValueError
                     THEN RepositoryError
                     ELSE [c EXCEPT !.id = UUID(to_string_id(NextObjectId(store)))]]
GenerationSessionRepository_saved(store, s) ==
    IF GenerationSessionSchema_to_document(SessionData(s), NextObjectId(store)) = InvalidId
    THEN [store |-> store, result |-> RepositoryError]
    ELSE [store |-> [store EXCEPT !.sessions =
                        Append(@, GenerationSessionSchema_to_document(
                                      SessionData(s), NextObjectId(store)))],
          result |-> IF UUID(to_string_id(NextObjectId(store))) = ValueError
                     THEN RepositoryError
                     ELSE [s EXCEPT !.id = UUID(to_string_id(NextObjectId(store)))]]

\* the documents of a collection whose deck_id is the given ObjectId
OfDeck(collection, object_id) == SelectSeq(collection, LAMBDA doc : doc.deck_id = object_id)
NotOfDeck(collection, object_id) == SelectSeq(collection, LAMBDA doc : doc.deck_id # object_id)

\* CardRepository.find_by_deck_id: the Cards rebuilt from the documents
\* found, or RepositoryError
CardRepository_found_by_deck_id(collection, deck_id) ==
    IF ObjectId(UuidCanonical(deck_id)) = InvalidId THEN RepositoryError
    ELSE IF \E i \in 1..Len(OfDeck(collection, ObjectId(UuidCanonical(deck_id)))) :
               StoreCard_from_dict(CardSchema_from_document(
                   OfDeck(collection, ObjectId(UuidCanonical(deck_id)))[i])) = ValueError
    THEN RepositoryError
    ELSE [i \in 1..Len(OfDeck(collection, ObjectId(UuidCanonical(deck_id)))) |->
             StoreCard_from_dict(CardSchema_from_document(
                 OfDeck(collection, ObjectId(UuidCanonical(deck_id)))[i]))]

\* GenerationSessionRepository.find_by_id, after the document was found: the
\* session is rebuilt, then every card of its deck becomes its generated_cards
SessionLoaded(store, document) ==
    IF StoreSession_from_dict(GenerationSessionSchema_from_document(document)) = ValueError
    THEN RepositoryError
    ELSE IF CardRepository_found_by_deck_id(store.cards,
                StoreSession_from_dict(
                    GenerationSessionSchema_from_document(document)).deck_id) = RepositoryError
    THEN RepositoryError
    ELSE [StoreSession_from_dict(GenerationSessionSchema_from_document(document))
             EXCEPT !.generated_cards =
                CardRepository_found_by_deck_id(store.cards,
                    StoreSession_from_dict(
                        GenerationSessionSchema_from_document(document)).deck_id)]
\* GenerationSessionRepository.find_by_id: a session, NoDeck for None, or
\* RepositoryError
GenerationSessionRepository_found_by_id(store, session_id) ==
    IF ObjectId(UuidCanonical(session_id)) = InvalidId THEN RepositoryError
    ELSE IF find_one(store.sessions, ObjectId(UuidCanonical(session_id))) = NoDeck THEN NoDeck
    ELSE SessionLoaded(store, find_one(store.sessions, ObjectId(UuidCanonical(session_id))))

\* DeckRepository.delete: delete_one on decks, then, when a deck was deleted,
\* delete_many on cards and on generation_sessions; cards_fail and
\* sessions_fail say whether the database fails that delete_many
DeckRepository_deleted(store, deck_id, cards_fail, sessions_fail) ==
    IF ObjectId(UuidCanonical(deck_id)) = InvalidId
    THEN [store |-> store, result |-> RepositoryError]
    ELSE IF find_one(store.decks, ObjectId(UuidCanonical(deck_id))) = NoDeck
    THEN [store |-> store, result |-> FALSE]
    ELSE IF cards_fail
    THEN [store |-> [store EXCEPT !.decks = SelectSeq(@, LAMBDA doc :
                                      doc._id # ObjectId(UuidCanonical(deck_id)))],
          result |-> RepositoryError]
    ELSE IF sessions_fail
    THEN [store |-> [store EXCEPT !.decks = SelectSeq(@, LAMBDA doc :
                                      doc._id # ObjectId(UuidCanonical(deck_id))),
                                  !.cards = NotOfDeck(@, ObjectId(UuidCanonical(deck_id)))],
          result |-> RepositoryError]
    ELSE [store |-> [store EXCEPT !.decks = SelectSeq(@, LAMBDA doc :
                                      doc._id # ObjectId(UuidCanonical(deck_id))),
                                  !.cards = NotOfDeck(@, ObjectId(UuidCanonical(deck_id))),
                                  !.sessions = NotOfDeck(@, ObjectId(UuidCanonical(deck_id)))],
          result |-> TRUE]

Store == [decks |-> decks, cards |-> cards, sessions |-> session]

\* the decks, cards and sessions handed to the repositories
StoreDecks ==
    {NewDeck(id, <<"V", "e", "r", "b", "s">>, <<>>, 10) : id \in DeckUuids}
CardUuids == {[uuid |-> Repeat("c", UuidHexLen)], [uuid |-> Repeat("d", UuidHexLen)]}
SessionUuids == {[uuid |-> Repeat("e", UuidHexLen)], [uuid |-> Repeat("f", UuidHexLen)]}
StoreCards ==
    {StoreCard(id, <<"c", "a", "t">>, deck_id) :
        id \in CardUuids, deck_id \in DeckUuids \cup {NoDeck}}
StoreSessions ==
    UNION {{StoreSession(id, deck_id, status, MinMaxCards, generated_cards) :
                id \in SessionUuids, status \in {PENDING, IN_PROGRESS},
                generated_cards \in {<<>>} \cup
                    {<<c>> : c \in {k \in StoreCards : k.deck_id = deck_id}}} :
            deck_id \in DeckUuids}

StoreDeck_save(deck) ==
    /\ Len(decks) < MaxDocs
    /\ decks' = Append(decks, DeckSchema_to_document(Deck_to_dict(deck), NextObjectId(Store)))
    /\ last' = IF UUID(to_string_id(NextObjectId(Store))) = ValueError
               THEN Raised("DeckRepository.save", deck, RepositoryError)
               ELSE Returned("DeckRepository.save",
                             [deck EXCEPT !.id = UUID(to_string_id(NextObjectId(Store)))])
    /\ UNCHANGED <<session, cards, card, now>>

CardRepository_save(c) ==
    /\ Len(cards) < MaxDocs
    /\ cards' = CardRepository_saved(Store, c).store.cards
    /\ last' = IF CardRepository_saved(Store, c).result = RepositoryError
               THEN Raised("CardRepository.save", c, RepositoryError)
               ELSE Returned("CardRepository.save", CardRepository_saved(Store, c).result)
    /\ UNCHANGED <<session, decks, card, now>>

GenerationSessionRepository_save(s) ==
    /\ Len(session) < MaxDocs
    /\ session' = GenerationSessionRepository_saved(Store, s).store.sessions
    /\ last' = IF GenerationSessionRepository_saved(Store, s).result = RepositoryError
               THEN Raised("GenerationSessionRepository.save", s, RepositoryError)
               ELSE Returned("GenerationSessionRepository.save",
                             GenerationSessionRepository_saved(Store, s).result)
    /\ UNCHANGED <<cards, decks, card, now>>

GenerationSessionRepository_find_by_id(session_id) ==
    /\ last' = IF GenerationSessionRepository_found_by_id(Store, session_id) = RepositoryError
               THEN Raised("GenerationSessionRepository.find_by_id",
                           [session_id |-> session_id], RepositoryError)
               ELSE Returned("GenerationSessionRepository.find_by_id",
                             [session_id |-> session_id,
                              found |-> GenerationSessionRepository_found_by_id(
                                            Store, session_id)])
    /\ UNCHANGED <<session, cards, decks, card, now>>

DeckRepository_delete(deck_id, cards_fail, sessions_fail) ==
    /\ decks' = DeckRepository_deleted(Store, deck_id, cards_fail, sessions_fail).store.decks
    /\ cards' = DeckRepository_deleted(Store, deck_id, cards_fail, sessions_fail).store.cards
    /\ session' = DeckRepository_deleted(Store, deck_id, cards_fail, sessions_fail).store.sessions
    /\ last' = IF DeckRepository_deleted(Store, deck_id, cards_fail, sessions_fail).result
                    = RepositoryError
               THEN Raised("DeckRepository.delete", [deck_id |-> deck_id], RepositoryError)
               ELSE Returned("DeckRepository.delete",
                             [deck_id |-> deck_id,
                              result |-> DeckRepository_deleted(
                                             Store, deck_id, cards_fail, sessions_fail).result])
    /\ UNCHANGED <<card, now>>

StoreInit ==
    /\ decks = <<>>
    /\ cards = <<>>
    /\ session = <<>>
    /\ card = NewCard(<<"a">>)
    /\ now = 0
    /\ last = NoCall

StoreNext ==
    \/ \E deck \in StoreDecks : StoreDeck_save(deck)
    \/ \E c \in StoreCards : CardRepository_save(c)
    \/ \E s \in StoreSessions : GenerationSessionRepository_save(s)
    \/ \E session_id \in SessionUuids : GenerationSessionRepository_find_by_id(session_id)
    \/ \E deck_id \in DeckUuids, cards_fail \in BOOLEAN, sessions_fail \in BOOLEAN :
          DeckRepository_delete(deck_id, cards_fail, sessions_fail)

StoreSpec == StoreInit /\ [][StoreNext]_vars

\* ------------------------------------------- MongoDBConnectionManager
\* the most AsyncIOMotorClient objects connect creates
MaxClients == 3

\* the variable session holds the singleton manager (_client and _database,
\* NoClient or the client they belong to), decks the server and the
\* clients created so far, cards the set of clients whose ping succeeded
NoClient == [none |-> TRUE]
Client(k) == [client |-> k]
\* what a call that returns None gives back
Done == [done |-> TRUE]
ConnectionFailure == [raised |-> "ConnectionFailure"]

\* MongoDBConnectionManager.is_connected
is_connected == session._client # NoClient /\ session._database # NoClient

\* the manager after connect() has built its client and taken the database
Connecting(manager, k) == [manager EXCEPT !._client = k, !._database = k]

\* MongoDBConnectionManager.connect: the client and the database are stored,
\* then _test_connection pings; a failed ping raises ConnectionFailure
connect(manager, k, ping_ok) ==
    [manager |-> Connecting(manager, k),
     result |-> IF ping_ok THEN Done ELSE ConnectionFailure]

ConnectionInit ==
    /\ session = [_client |-> NoClient, _database |-> NoClient]
    /\ decks = [up |-> TRUE, clients |-> 0]
    /\ cards = {}
    /\ card = NewCard(<<"a">>)
    /\ now = 0
    /\ last = NoCall

\* the server stops or starts answering
ServerChanges ==
    /\ decks' = [decks EXCEPT !.up = ~@]
    /\ UNCHANGED <<session, cards, card, now, last>>

Manager_connect ==
    /\ decks.clients < MaxClients
    /\ session' = connect(session, Client(decks.clients + 1), decks.up).manager
    /\ decks' = [decks EXCEPT !.clients = @ + 1]
    /\ cards' = IF decks.up THEN cards \cup {Client(decks.clients + 1)} ELSE cards
    /\ last' = IF connect(session, Client(decks.clients + 1), decks.up).result = ConnectionFailure
               THEN Raised("connect", None, ConnectionFailure)
               ELSE Returned("connect", None)
    /\ UNCHANGED <<card, now>>

\* MongoDBConnectionManager.disconnect
Manager_disconnect ==
    /\ session' = IF session._client # NoClient
                  THEN [session EXCEPT !._client = NoClient, !._database = NoClient]
                  ELSE session
    /\ last' = Returned("disconnect", None)
    /\ UNCHANGED <<cards, decks, card, now>>

Manager_is_connected ==
    /\ last' = Returned("is_connected", is_connected)
    /\ UNCHANGED <<session, cards, decks, card, now>>

\* ensure_mongodb_connection: connect() when the manager is not connected,
\* then the manager is returned
ensure_mongodb_connection ==
    IF is_connected
    THEN /\ last' = Returned("ensure_mongodb_connection", session)
         /\ UNCHANGED <<session, cards, decks, card, now>>
    ELSE /\ decks.clients < MaxClients
         /\ session' = connect(session, Client(decks.clients + 1), decks.up).manager
         /\ decks' = [decks EXCEPT !.clients = @ + 1]
         /\ cards' = IF decks.up THEN cards \cup {Client(decks.clients + 1)} ELSE cards
         /\ last' = IF connect(session, Client(decks.clients + 1), decks.up).result = ConnectionFailure
                    THEN Raised("ensure_mongodb_connection", None, ConnectionFailure)
                    ELSE Returned("ensure_mongodb_connection",
                                  connect(session, Client(decks.clients + 1), decks.up).manager)
         /\ UNCHANGED <<card, now>>

ConnectionNext ==
    \/ ServerChanges
    \/ Manager_connect
    \/ Manager_disconnect
    \/ Manager_is_connected
    \/ ensure_mongodb_connection

ConnectionSpec == ConnectionInit /\ [][ConnectionNext]_vars

\* ------------------------------------------------ a deck and its ceiling
\* the most cards the deck is filled with
MaxFilled == 11
\* the factor in can_add_more_cards
CapacityMultiplier == 10

\* Deck.can_add_more_cards(count)
can_add_more_cards(deck, count) ==
    Len(deck.cards) + count <= deck.max_cards_per_generation * CapacityMultiplier

\* Deck.add_card on deck d, as above, on decks filled with up to MaxFilled cards
FillMutGated(d, c) ==
    /\ Len(decks[d].cards) < MaxFilled
    /\ IF c = None
       THEN /\ last' = Raised("Deck.add_card", c, "Card cannot be None")
            /\ UNCHANGED <<cards, decks, now>>
       ELSE IF ~can_add_more_cards(decks[d], 1)
       THEN /\ last' = Raised("Deck.add_card", c, "Deck is full")
            /\ UNCHANGED <<cards, decks, now>>
       ELSE \E t \in Later(now) :
            /\ cards' = [cards EXCEPT ![c] = assign_to_deck(cards[c], d, now)]
            /\ decks' = [decks EXCEPT ![d].cards = Append(@, c), ![d].updated_at = t]
            /\ now' = t
            /\ last' = Returned("Deck.add_card", c)
    /\ UNCHANGED <<session, card>>
Deck_add_card_filling(d, c) ==
    /\ Len(decks[d].cards) < MaxFilled
    /\ IF c = None
       THEN /\ last' = Raised("Deck.add_card", c, "Card cannot be None")
            /\ UNCHANGED <<cards, decks, now>>
       ELSE \E t \in Later(now) :
            /\ cards' = [cards EXCEPT ![c] = assign_to_deck(cards[c], d, now)]
            /\ decks' = [decks EXCEPT ![d].cards = Append(@, c), ![d].updated_at = t]
            /\ now' = t
            /\ last' = Returned("Deck.add_card", c)
    /\ UNCHANGED <<session, card>>

\* Deck.can_add_more_cards(count) is called on deck d
Deck_can_add_more_cards(d, count) ==
    /\ last' = Returned("Deck.can_add_more_cards",
                        [deck |-> d, count |-> count,
                         result |-> can_add_more_cards(decks[d], count)])
    /\ UNCHANGED <<session, cards, decks, card, now>>

\* the counts can_add_more_cards is asked about: its default 1, and 2
Counts == {1, 2}

\* deck d1 is empty, with a valid max_cards_per_generation
FillInit ==
    /\ \E n \in {m \in 1..MaxBatch : ValidBatchSize(m)} :
          decks = [d \in DeckIds |->
                     [cards |-> <<>>, updated_at |-> 0, max_cards_per_generation |-> n]]
    /\ cards = [c \in CardIds |-> NewCard(<<"a">>)]
    /\ session = [status |-> PENDING, generated_cards |-> <<>>, max_cards |-> MinMaxCards,
                  deck_id |-> "d1", updated_at |-> 0, completed_at |-> NotSet,
                  error_message |-> None]
    /\ card = NewCard(<<"a">>)
    /\ now = 0
    /\ last = NoCall

FillNext ==
    \/ \E c \in CardIds \cup {None} : Deck_add_card_filling("d1", c)
    \/ \E count \in Counts : Deck_can_add_more_cards("d1", count)

FillSpec == FillInit /\ [][FillNext]_vars

\* ------------------------------------------------------------------ claims
InSeq(x, seq) == \E i \in 1..Len(seq) : seq[i] = x
Open == {PENDING, IN_PROGRESS}
Terminal == {COMPLETED, FAILED, CANCELLED}

\* the step is a call of op (a step that only lets time pass is none)
Called(op) ==
    /\ last'.op = op
    /\ <<session, cards, decks, card, last>>' # <<session, cards, decks, card, last>>

\* C1: once the status is COMPLETED, FAILED or CANCELLED, every call of a
\* session operation fails and the status stays what it is; cancel fails with
\* its invalid-transition error.
C1_TerminalIsFinal ==
    [][session.status \in Terminal =>
        /\ session'.status = session.status
        /\ \A op \in {"start_generation", "add_generated_card", "complete_generation",
                      "fail_generation", "cancel_generation"} :
              Called(op) => ~last'.ok
        /\ Called("cancel_generation") => last'.err = "Cannot cancel generation"]_vars

C1_Witness ==
    /\ session.status = COMPLETED
    /\ last.op = "cancel_generation"
    /\ ~last.ok

\* C2: the number of generated cards never exceeds max_cards, and
\* add_generated_card called with the count at max_cards fails without
\* appending.
C2_CapacityBound ==
    /\ cards_generated_count <= session.max_cards
    /\ [][/\ Len(session'.generated_cards) <= session'.max_cards
          /\ (Called("add_generated_card") /\ cards_generated_count = session.max_cards)
                => /\ ~last'.ok
                   /\ session'.generated_cards = session.generated_cards]_vars

C2_Witness ==
    /\ last.op = "add_generated_card"
    /\ ~last.ok
    /\ last.arg # None
    /\ session.status \in Open
    /\ cards_generated_count = session.max_cards

\* C3: complete_generation succeeds exactly when the status is IN_PROGRESS
\* and a card has been generated; then the status is COMPLETED and
\* completed_at is set; otherwise it fails and the status is unchanged.
C3_CompleteExactly ==
    [][Called("complete_generation") =>
        /\ last'.ok <=> (session.status = IN_PROGRESS /\ cards_generated_count >= 1)
        /\ last'.ok => (session'.status = COMPLETED /\ session'.completed_at # NotSet)
        /\ ~last'.ok => session'.status = session.status]_vars

C3_Witness ==
    /\ last.op = "complete_generation"
    /\ last.ok
    /\ session.status = COMPLETED
    /\ cards_generated_count >= 1

\* C4 as stated: on a session with zero generated cards, complete fails with
\* the empty-completion error, also on a freshly constructed session.
C4_Original ==
    (last.op = "complete_generation" /\ cards_generated_count = 0)
        => (~last.ok /\ last.err = "Cannot complete generation without any cards")

\* C4 as amended: on a session with zero generated cards complete fails; with
\* the empty-completion error when the status is IN_PROGRESS, and with the
\* invalid-transition error in every other status (the status is checked first).
C4_StatusCheckedFirst ==
    (last.op = "complete_generation" /\ cards_generated_count = 0)
        => /\ ~last.ok
           /\ session.status = IN_PROGRESS
                 => last.err = "Cannot complete generation without any cards"
           /\ session.status # IN_PROGRESS
                 => last.err = "Cannot complete generation"

C4_Witness ==
    /\ last.op = "complete_generation"
    /\ cards_generated_count = 0
    /\ session.status = PENDING
    /\ last.err = "Cannot complete generation"

\* C5: start_generation succeeds only from PENDING and sets IN_PROGRESS; in
\* any other status it fails with its invalid-transition error and the status
\* stays.
C5_StartOnlyFromPending ==
    [][Called("start_generation") =>
        /\ last'.ok <=> session.status = PENDING
        /\ last'.ok => session'.status = IN_PROGRESS
        /\ ~last'.ok => /\ last'.err = "Cannot start generation"
                        /\ session'.status = session.status]_vars

C5_Witness ==
    /\ last.op = "start_generation"
    /\ ~last.ok
    /\ session.status = IN_PROGRESS

\* C6: fail_generation(message) succeeds from PENDING and from IN_PROGRESS
\* whatever the number of cards; then the status is FAILED, error_message is
\* the message, completed_at is set and the generated cards are kept.
C6_FailFromOpen ==
    [][(Called("fail_generation") /\ session.status \in Open) =>
        /\ last'.ok
        /\ session'.status = FAILED
        /\ session'.error_message = last'.arg
        /\ session'.completed_at # NotSet
        /\ session'.generated_cards = session.generated_cards]_vars

C6_Witness ==
    /\ last.op = "fail_generation"
    /\ last.ok
    /\ session.status = FAILED
    /\ session.error_message = last.arg
    /\ cards_generated_count >= 1

\* C7: add_generated_card succeeds on a PENDING session with room, and no call
\* of add_generated_card changes the status.
C7_AddKeepsStatus ==
    [][Called("add_generated_card") =>
        /\ session'.status = session.status
        /\ (session.status = PENDING /\ cards_generated_count < session.max_cards
              /\ last'.arg # None) => last'.ok]_vars

C7_Witness ==
    /\ last.op = "add_generated_card"
    /\ last.ok
    /\ session.status = PENDING
    /\ InSeq(last.arg, session.generated_cards)

\* C8 as stated: after a successful add_generated_card(card) the card is in
\* the session's log and in the card sequence of the session's deck.
C8_Original ==
    (last.op = "add_generated_card" /\ last.ok)
        => /\ InSeq(last.arg, session.generated_cards)
           /\ InSeq(last.arg, decks[session.deck_id].cards)

\* C8 as amended: a successful add_generated_card(card) puts the card in the
\* session's log and sets the card's deck_id to the session's deck; no call of
\* add_generated_card changes any deck's card sequence.
C8_LogAndDeckId ==
    [][Called("add_generated_card") =>
        /\ decks' = decks
        /\ last'.ok => /\ InSeq(last'.arg, session'.generated_cards)
                       /\ cards'[last'.arg].deck_id = session.deck_id]_vars

C8_Witness ==
    /\ last.op = "add_generated_card"
    /\ last.ok
    /\ cards[last.arg].deck_id = session.deck_id
    /\ decks[session.deck_id].cards # <<>>
    /\ ~InSeq(last.arg, decks[session.deck_id].cards)

\* C9: update_translation(new) fails exactly when the normalized new
\* translation equals the normalized current one; on failure the translation
\* and updated_at are unchanged, otherwise the translation is replaced.
C9_Original ==
    [][Called("update_translation") =>
        /\ ~last'.ok <=> (TranslationNormalized(TranslationValue(last'.arg))
                            = TranslationNormalized(card.translation))
        /\ ~last'.ok => (card'.translation = card.translation
                           /\ card'.updated_at = card.updated_at)
        /\ last'.ok => card'.translation = TranslationValue(last'.arg)]_vars

\* C10 as stated: assign_to_deck(d) never fails, and the card after two
\* consecutive calls assign_to_deck(d) equals the card after one.
C10_Original ==
    [][(Called("assign_to_deck") /\ last.op = "assign_to_deck" /\ last.arg = last'.arg)
        => (last'.ok /\ card' = card)]_vars

\* C10 as amended: assign_to_deck(d) never fails and sets deck_id to d; after
\* two consecutive calls assign_to_deck(d) the card equals the card after one
\* in every field but updated_at, which each call stamps again.
C10_IdempotentButTimestamp ==
    [][Called("assign_to_deck") =>
        /\ last'.ok
        /\ card'.deck_id = last'.arg
        /\ card'.translation = card.translation
        /\ card'.updated_at >= card.updated_at
        /\ (last.op = "assign_to_deck" /\ last.arg = last'.arg)
              => card' = [card EXCEPT !.updated_at = card'.updated_at]]_vars

C10_Witness ==
    /\ last.op = "assign_to_deck"
    /\ card.deck_id = last.arg
    /\ card.deck_id # None
    /\ card.updated_at > 0

\* the session as its caller sees it: its fields, with the generated cards
SessionByValue(s, cs) ==
    [id |-> s.id, context |-> s.context, deck_id |-> s.deck_id, status |-> s.status,
     max_cards |-> s.max_cards, created_at |-> s.created_at, updated_at |-> s.updated_at,
     completed_at |-> s.completed_at, error_message |-> s.error_message,
     generated_cards |-> [i \in 1..Len(s.generated_cards) |-> cs[s.generated_cards[i]]]]

\* C11: a session rebuilt by from_dict from its to_dict equals the session by
\* value: id, context, deck_id, status, max_cards, timestamps, completed_at,
\* error_message and the sequence of generated cards, field by field.
C11_SessionRoundTrip ==
    last.op = "from_dict" => (last.ok /\ last.arg = SessionByValue(session, cards))

C11_Witness ==
    /\ last.op = "from_dict"
    /\ last.ok
    /\ session.status = FAILED
    /\ Len(session.generated_cards) = 2
    /\ last.arg.generated_cards[1].deck_id = session.deck_id
    /\ last.arg.completed_at # NotSet

\* C12: validate_card_uniqueness answers is_unique exactly when it recorded no
\* problem, and when a stored card has the card's normalized word the answer
\* is not unique and one of the problems names the card's word.
SameNormalizedWord(card1, card2) == WordNormalized(card1.word) = WordNormalized(card2.word)
C12_UniqueIffNoProblems ==
    last.op = "validate_card_uniqueness" =>
        /\ last.arg.is_unique <=> (last.arg.problems = <<>>)
        /\ (\E i \in 1..Len(cards) : SameNormalizedWord(card, cards[i])) =>
              /\ ~last.arg.is_unique
              /\ \E k \in 1..Len(last.arg.problems) :
                    /\ last.arg.problems[k][1] = "Palavra"
                    /\ last.arg.problems[k][2] = card.word
C12_Witness ==
    /\ last.op = "validate_card_uniqueness"
    /\ card = VariantCard
    /\ cards = <<KittenCard, AlgorithmCard>>
    /\ ~last.arg.is_unique
    /\ card.word # AlgorithmCard.word

\* C13: find_duplicates_for_card returns exactly the fetched cards with
\* another id and a similarity of at least the threshold, each with its
\* similarity, by similarity descending and, among equal similarities, in the
\* order they were fetched.
Candidates == IF card.deck_id # None THEN find_by_deck_id(cards, card.deck_id)
              ELSE get_all_cards
Kept(similarity_threshold) ==
    {i \in 1..Len(Candidates) :
        /\ Candidates[i].id # card.id
        /\ FGe(Similarity(card, Candidates[i]), similarity_threshold)}
C13_FilteredAndSorted ==
    last.op = "find_duplicates_for_card" =>
        LET found == last.arg.found
            kept == Kept(last.arg.threshold)
        IN  /\ Len(found) = Cardinality(kept)
            /\ \E p \in [1..Len(found) -> kept] :
                  /\ \A k, l \in 1..Len(found) : k < l =>
                        \/ FGt(found[k].score, found[l].score)
                        \/ (found[k].score = found[l].score /\ p[k] < p[l])
                  /\ \A k \in 1..Len(found) :
                        found[k] = [card |-> Candidates[p[k]],
                                    score |-> Similarity(card, Candidates[p[k]])]
C13_Witness ==
    /\ last.op = "find_duplicates_for_card"
    /\ Len(cards) = 2
    /\ Len(last.arg.found) = 2
    /\ last.arg.found[1].card = cards[2]
    /\ last.arg.found[2].card = cards[1]
    /\ FGt(last.arg.found[1].score, last.arg.found[2].score)

\* C14: the similarity of a card with an identical copy of itself, a card
\* that differs from it in the id only, is exactly 1.0.
IdenticalCopy(card1, card2) == card1.id # card2.id /\ [card2 EXCEPT !.id = card1.id] = card1
C14_Original ==
    (last.op = "_calculate_similarity" /\ IdenticalCopy(card, last.arg.other)) =>
        last.arg.score = FOne

\* C15: the quality level is fixed by the score and the number of issues
\* through the ordered rules: excellent iff score >= 0.9 and no issue;
\* otherwise good iff score >= 0.8 and at most 1 issue; otherwise fair iff
\* score >= 0.6 and at most 3 issues; otherwise poor iff score >= 0.4;
\* otherwise invalid. A score >= 0.9 with 4 issues or more is poor.
C15_LevelRules ==
    last.op = "_determine_quality_level" =>
        LET score == last.arg.score
            n == Len(last.arg.issues)
            level == last.arg.level
            excellent == FGe(score, FLit(9, 10)) /\ n = 0
            good == ~excellent /\ FGe(score, FLit(8, 10)) /\ n <= 1
            fair == ~excellent /\ ~good /\ FGe(score, FLit(6, 10)) /\ n <= 3
            poor == ~excellent /\ ~good /\ ~fair /\ FGe(score, FLit(4, 10))
        IN  /\ level \in QualityLevel
            /\ (level = EXCELLENT) <=> excellent
            /\ (level = GOOD) <=> good
            /\ (level = FAIR) <=> fair
            /\ (level = POOR) <=> poor
            /\ (level = INVALID) <=> (~excellent /\ ~good /\ ~fair /\ ~poor)
            /\ (FGe(score, FLit(9, 10)) /\ n >= 4) => level = POOR
C15_Witness ==
    /\ last.op = "_determine_quality_level"
    /\ FGe(last.arg.score, FLit(9, 10))
    /\ Len(last.arg.issues) = 4
    /\ last.arg.level = POOR

\* C16: evaluate_card returns an overall score between 0 and 1: each of the
\* four sub-scores is between 0 and 1, and the four weights add up to 1.
InUnitInterval(x) == FGe(x, FZero) /\ FLe(x, FOne)
C16_ScoreInUnitInterval ==
    last.op = "evaluate_card" =>
        /\ InUnitInterval(last.arg.overall_score)
        /\ InUnitInterval(last.arg.metrics.word_score)
        /\ InUnitInterval(last.arg.metrics.translation_score)
        /\ InUnitInterval(last.arg.metrics.example_score)
        /\ InUnitInterval(last.arg.metrics.diversity_score)
        /\ FAdd(FAdd(FAdd(WORD_WEIGHT, TRANSLATION_WEIGHT), EXAMPLE_WEIGHT),
                DIVERSITY_WEIGHT) = FOne
C16_Witness ==
    /\ last.op = "evaluate_card"
    /\ cards # <<>>
    /\ last.arg.overall_score = FOne
    /\ last.arg.metrics.example_score = FOne

\* C17: suggest_alternatives returns, for every word and every list of
\* existing cards, empty or not, a list of at most 5 suggestions that are
\* pairwise distinct and none of which equals the word, letter case aside.
C17_Original ==
    last.op = "suggest_alternatives" =>
        /\ last.ok
        /\ Len(last.arg.suggestions) <= 5
        /\ \A i, j \in 1..Len(last.arg.suggestions) :
              i # j => last.arg.suggestions[i] # last.arg.suggestions[j]
        /\ \A i \in 1..Len(last.arg.suggestions) :
              ToLower(last.arg.suggestions[i]) # ToLower(last.arg.word)

\* C18: remove_card(id) returns true exactly when a card of that id was in the
\* deck; then the first card of that id is removed and the others keep their
\* order; when it returns false the deck's cards and updated_at are unchanged.
C18_RemovesFirstOccurrence ==
    [][Called("Deck.remove_card") =>
        LET id == last'.arg.card_id
            before == decks[last'.arg.deck].cards
            after == decks'[last'.arg.deck].cards
        IN  /\ last'.arg.result <=> InSeq(id, before)
            /\ last'.arg.result =>
                  \E i \in 1..Len(before) :
                     /\ before[i] = id
                     /\ \A k \in 1..(i - 1) : before[k] # id
                     /\ after = SubSeq(before, 1, i - 1) \o SubSeq(before, i + 1, Len(before))
            /\ ~last'.arg.result => decks' = decks]_vars
C18_Witness ==
    /\ last.op = "Deck.remove_card"
    /\ last.arg.result
    /\ last.arg.card_id = "c1"
    /\ decks[last.arg.deck].cards = <<"c2", "c1">>

\* C19: get_generation_batches cuts the card sequence in order: the batches
\* put end to end are the card sequence, no batch is empty, each has at most
\* max_cards_per_generation cards and each but the last exactly that many;
\* a deck without cards has no batch.
RECURSIVE Flatten(_)
Flatten(seqs) == IF seqs = <<>> THEN <<>> ELSE Head(seqs) \o Flatten(Tail(seqs))
C19_BatchesPartition ==
    last.op = "Deck.get_generation_batches" =>
        LET deck == decks[last.arg.deck]
            batches == last.arg.batches
        IN  /\ Flatten(batches) = deck.cards
            /\ \A k \in 1..Len(batches) :
                  /\ batches[k] # <<>>
                  /\ Len(batches[k]) <= deck.max_cards_per_generation
                  /\ k < Len(batches) => Len(batches[k]) = deck.max_cards_per_generation
            /\ deck.cards = <<>> => batches = <<>>
C19_Witness ==
    /\ last.op = "Deck.get_generation_batches"
    /\ Len(last.arg.batches) = 2
    /\ Len(last.arg.batches[1]) = 2
    /\ Len(last.arg.batches[2]) = 1

\* C20: save(deck) returns the saved deck and find_by_id of the id it reports
\* then finds a deck with the same title, description and
\* max_cards_per_generation.
C20_Original ==
    [][Called("DeckRepository.save") =>
        /\ last'.ok
        /\ LET found == find_by_id(decks', last'.arg.id)
           IN  /\ found \notin {RepositoryError, NoDeck}
               /\ found.title = last'.arg.title
               /\ found.description = last'.arg.description
               /\ found.max_cards_per_generation = last'.arg.max_cards_per_generation]_vars

\* C21 as stated: a card belongs to at most one deck: no card id is in the
\* card sequences of two different decks at once.
C21_Original ==
    \A c \in CardIds : \A d1 \in DeckIds, d2 \in DeckIds :
        (InSeq(c, decks[d1].cards) /\ InSeq(c, decks[d2].cards)) => d1 = d2

\* C22 as stated: every card in the session's generated-card log has deck_id
\* equal to the session's deck_id, in every reachable state.
C22_Original ==
    \A i \in 1..Len(session.generated_cards) :
        cards[session.generated_cards[i]].deck_id = session.deck_id

C25_Original ==
    /\ is_connected => session._client \in cards
    /\ (last.op = "ensure_mongodb_connection" /\ last.ok)
          => (is_connected /\ session._client \in cards)

\* C26: in every reachable state of a session built with default fields,
\* completed_at is set exactly when the status is COMPLETED, FAILED or
\* CANCELLED, and error_message is set only when the status is FAILED.
C26_CompletedIffTerminal ==
    /\ (session.completed_at # NotSet) <=> (session.status \in Terminal)
    /\ (session.error_message # None) => (session.status = FAILED)

C26_Witness ==
    /\ session.status = FAILED
    /\ session.error_message # None
    /\ session.completed_at # NotSet
    /\ session.generated_cards # <<>>

\* the lifecycle operations of a session
SessionOps == {"start_generation", "add_generated_card", "complete_generation",
               "fail_generation", "cancel_generation"}

\* C27: a call of start_generation, add_generated_card, complete_generation,
\* fail_generation or cancel_generation that fails leaves the session (status,
\* generated cards, updated_at, completed_at, error_message) and every card,
\* the rejected one included, as they were before the call.
C27_RejectedChangesNothing ==
    [][(last'.op \in SessionOps /\ ~last'.ok)
        => (session' = session /\ cards' = cards)]_vars

C27_Witness ==
    /\ last.op = "add_generated_card"
    /\ ~last.ok
    /\ last.arg \in CardIds
    /\ cards[last.arg].deck_id = None
    /\ session.generated_cards # <<>>

\* C28: a session becomes COMPLETED only by a step from IN_PROGRESS, and
\* becomes IN_PROGRESS only by a successful start_generation on a PENDING
\* session, so a COMPLETED session was started earlier; a COMPLETED session
\* holds at least one generated card; a session that is still PENDING, never
\* started, ends only as FAILED or CANCELLED.
C28_CompletedWasStarted ==
    [][/\ (session'.status = COMPLETED /\ session.status # COMPLETED)
            => (session.status = IN_PROGRESS /\ last'.op = "complete_generation" /\ last'.ok)
       /\ (session'.status = IN_PROGRESS /\ session.status # IN_PROGRESS)
            => (session.status = PENDING /\ last'.op = "start_generation" /\ last'.ok)
       /\ (session'.status = COMPLETED) => (session'.generated_cards # <<>>)
       /\ (session.status = PENDING /\ session'.status \in Terminal)
            => (session'.status \in {FAILED, CANCELLED})]_vars

C28_Witness ==
    /\ session.status = COMPLETED
    /\ last.op = "complete_generation"
    /\ last.ok
    /\ session.generated_cards # <<>>

\* C29: a card for which evaluate_card records no issue is rated EXCELLENT
\* whatever the context cards: its word, translation and example scores are
\* each 1.0 and its overall score is at least 0.9, also when the diversity
\* score is 0.
C29_NoIssueIsExcellent ==
    (last.op = "evaluate_card" /\ last.arg.issues = <<>>) =>
        /\ last.arg.quality_level = EXCELLENT
        /\ last.arg.metrics.word_score = FOne
        /\ last.arg.metrics.translation_score = FOne
        /\ last.arg.metrics.example_score = FOne
        /\ FGe(last.arg.overall_score, EXCELLENT_SCORE)

C29_Witness ==
    /\ last.op = "evaluate_card"
    /\ last.arg.issues = <<>>
    /\ cards # <<>>
    /\ FIsZero(last.arg.metrics.diversity_score)
    /\ last.arg.quality_level = EXCELLENT

\* C30: Deck.add_card of a card that is not None succeeds and makes
\* card_count one more, also when can_add_more_cards(1) is false before the
\* call; can_add_more_cards(n) is true exactly when card_count + n is at most
\* ten times max_cards_per_generation.
C30_AddCardNotGated ==
    [][/\ (Called("Deck.add_card") /\ last'.arg # None)
            => (last'.ok /\ Len(decks'["d1"].cards) = Len(decks["d1"].cards) + 1)
       /\ Called("Deck.can_add_more_cards")
            => (last'.arg.result <=>
                   (Len(decks["d1"].cards) + last'.arg.count
                       <= 10 * decks["d1"].max_cards_per_generation))]_vars

C30_Witness ==
    /\ last.op = "Deck.add_card"
    /\ last.ok
    /\ Len(decks["d1"].cards) > 10 * decks["d1"].max_cards_per_generation
====
